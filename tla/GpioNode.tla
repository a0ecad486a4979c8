------------------------------ MODULE GpioNode ------------------------------
(***************************************************************************)
(* ThingsBoard_ESP8266/LED_GPIO_Control: a node whose two pins are set by  *)
(* remote procedure calls over MQTT and shown on a dashboard.  loop()      *)
(* connects again whenever the socket is closed, and announces the pins    *)
(* after each connect; on_message() answers and reports.  The link may be  *)
(* lost between any two publishes, and the node only notices later; each   *)
(* write may also fail on its own.                                         *)
(***************************************************************************)
EXTENDS Integers, Sequences

CONSTANTS
  Pins,       \* the pins of set_gpio_status()
  Requests,   \* identifiers of requests, each used once
  MaxFaults   \* bound: lost links, failed writes and power cycles

ASSUME BoundAssumption == MaxFaults \in Nat /\ Pins # {}

VARIABLES
  \* the node
  gpioState,  \* what the node believes of its pins
  output,     \* the levels of the pins
  pc,         \* where loop() is
  request,    \* the request on_message() is at work on
  sock,       \* client.connected()
  \* the network and the server
  cut,        \* whether data no longer passes
  subscribed, \* whether the server forwards requests on this connection
  inbox,      \* requests under way to the node
  outbox,     \* messages under way to the server
  shown,      \* the last attributes the server took
  answered,   \* requests whose answer the server took
  asked,      \* requests made
  faults,
  \* history
  log,        \* the levels the pins have been at
  done,       \* where in the log each request left the pins, or 0
  refused     \* whether this connection's "subscribe" or last "attributes" was refused

node    == <<gpioState, output, pc, request>>
network == <<sock, cut, subscribed, inbox, outbox>>
server  == <<shown, answered, asked>>
vars    == <<node, network, server, faults, log, done, refused>>

AllLow == [p \in Pins |-> FALSE]

\* What a request asks: to tell the pins, to set one, or to set one the node
\* does not have.  A message that is no JSON or has another method is "noise".
Calls == [method : {"get", "noise"}] \cup [method : {"set"}, pin : Pins, enabled : BOOLEAN]
         \cup [method : {"setOther"}]
NoRequest == [id |-> "none", call |-> [method |-> "noise"]]

Init ==
  /\ gpioState = AllLow /\ output = AllLow
  /\ pc = "loop" /\ request = NoRequest
  /\ sock = "down" /\ cut = FALSE /\ subscribed = FALSE
  /\ inbox = <<>> /\ outbox = <<>>
  /\ shown = [value |-> AllLow, at |-> 0] /\ answered = {} /\ asked = {}
  /\ faults = 0
  /\ log = <<AllLow>> /\ done = [r \in Requests |-> 0]
  /\ refused = {}

-----------------------------------------------------------------------------
(* reconnect() *)

\* connect() succeeds: a clean session on a new connection.
Connect ==
  /\ pc = "loop" /\ sock = "down"
  /\ sock' = "up" /\ cut' = FALSE /\ subscribed' = FALSE
  /\ inbox' = <<>> /\ outbox' = <<>>
  /\ pc' = "subscribe" /\ refused' = {}
  /\ UNCHANGED <<gpioState, output, request, server, faults, log, done>>

\* Client::write() takes a packet as a whole, or refuses it, or takes the beginning
\* only, and the server ends the session when something else follows.  Nobody looks
\* at the result.
Outcomes == {"whole", "refused", "torn"}
Written(outcome) ==
  /\ outcome # "whole" => sock = "up" /\ ~cut /\ faults < MaxFaults
  /\ faults' = IF outcome = "whole" THEN faults ELSE faults + 1
  /\ cut' = (cut \/ outcome = "torn")
Arrives(outcome) == outcome = "whole" /\ sock = "up" /\ ~cut

Subscribe(outcome) ==
  /\ pc = "subscribe"
  /\ Written(outcome)
  /\ subscribed' = Arrives(outcome)
  /\ refused' = IF outcome = "refused" THEN refused \cup {"subscribe"} ELSE refused
  /\ pc' = "announce"
  /\ UNCHANGED <<gpioState, output, request, sock, inbox, outbox, server, log, done>>

\* get_gpio_status() in a message; `at` is the place of its value in the log.
Status(kind, id) == [kind |-> kind, id |-> id, value |-> gpioState, at |-> Len(log)]

\* publish().
Publish(kind, id, outcome) ==
  /\ Written(outcome)
  /\ outbox' = IF outcome = "torn" THEN <<>>
               ELSE IF Arrives(outcome) THEN Append(outbox, Status(kind, id)) ELSE outbox
  /\ subscribed' = (subscribed /\ outcome # "torn")
  /\ refused' = IF kind = "response" THEN refused
                ELSE IF outcome = "refused" THEN refused \cup {kind} ELSE refused \ {kind}

\* The pins are announced after each connect.  (Faulty: they are not.)
AnnounceNothing(outcome) ==
  /\ pc = "announce" /\ pc' = "loop"
  /\ UNCHANGED <<gpioState, output, request, network, server, faults, log, done, refused>>
Announce(outcome) ==
  /\ pc = "announce"
  /\ Publish("attributes", "none", outcome)
  /\ pc' = "loop"
  /\ UNCHANGED <<gpioState, output, request, sock, inbox, server, log, done>>

-----------------------------------------------------------------------------
(* on_message() *)

\* set_gpio_status().  (Faulty: the believed state of another pin is updated.)
BelievedOther(pin, enabled) ==
  [gpioState EXCEPT ![CHOOSE p \in Pins : p # pin] = enabled]
Believed(pin, enabled) == [gpioState EXCEPT ![pin] = enabled]

\* A message is taken and carried out; "reply" and "report" are its publishes.
\* (Faulty: the message stays in the receive buffer.)
TakenNot(queue) == queue
Taken(queue) == Tail(queue)

HandleMessage ==
  /\ pc = "loop" /\ sock = "up" /\ inbox # <<>>
  /\ inbox' = Taken(inbox)
  /\ LET call == Head(inbox).call IN
       /\ IF call.method = "set"
            THEN /\ output' = [output EXCEPT ![call.pin] = call.enabled]
                 /\ gpioState' = Believed(call.pin, call.enabled)
                 /\ log' = Append(log, output')
            ELSE UNCHANGED <<output, gpioState, log>>
       /\ IF call.method = "noise"
            THEN UNCHANGED <<pc, request, done>>
            ELSE /\ pc' = "reply" /\ request' = Head(inbox)
                 /\ done' = [done EXCEPT ![Head(inbox).id] = Len(log')]
  /\ UNCHANGED <<sock, cut, subscribed, outbox, server, faults, refused>>

\* (Faulty: what is set is answered and not reported.)
ReplyOnly(outcome) ==
  /\ pc = "reply"
  /\ Publish("response", request.id, outcome)
  /\ pc' = "loop" /\ request' = NoRequest
  /\ UNCHANGED <<gpioState, output, sock, inbox, server, log, done>>
Reply(outcome) ==
  /\ pc = "reply"
  /\ Publish("response", request.id, outcome)
  /\ IF request.call.method = "get"
       THEN pc' = "loop" /\ request' = NoRequest
       ELSE pc' = "report" /\ UNCHANGED request
  /\ UNCHANGED <<gpioState, output, sock, inbox, server, log, done>>

Report(outcome) ==
  /\ pc = "report"
  /\ Publish("attributes", "none", outcome)
  /\ pc' = "loop" /\ request' = NoRequest
  /\ UNCHANGED <<gpioState, output, sock, inbox, server, log, done>>

-----------------------------------------------------------------------------
(* The server, the link and the power (not under src/). *)

\* A request, forwarded when the node is subscribed and lost otherwise.
Ask(r, call) ==
  /\ r \notin asked
  /\ asked' = asked \cup {r}
  /\ inbox' = IF subscribed /\ ~cut THEN Append(inbox, [id |-> r, call |-> call])
                                    ELSE inbox
  /\ UNCHANGED <<node, sock, cut, subscribed, outbox, shown, answered, faults,
                 log, done, refused>>

ServerTake ==
  /\ outbox # <<>>
  /\ outbox' = Tail(outbox)
  /\ LET m == Head(outbox) IN
       IF m.kind = "attributes"
         THEN shown' = [value |-> m.value, at |-> m.at] /\ UNCHANGED answered
         ELSE answered' = answered \cup {m.id} /\ UNCHANGED shown
  /\ UNCHANGED <<node, sock, cut, subscribed, inbox, asked, faults, log, done,
                 refused>>

\* Data stops passing.  What the node had not sent through is lost; what had
\* reached it may still be read.
CutLink ==
  /\ sock = "up" /\ ~cut /\ faults < MaxFaults
  /\ faults' = faults + 1
  /\ cut' = TRUE /\ subscribed' = FALSE /\ outbox' = <<>>
  /\ \E n \in 0 .. Len(inbox) : inbox' = SubSeq(inbox, 1, n)
  /\ UNCHANGED <<node, sock, server, log, done, refused>>

\* The node's TCP stack, or the ping of client.loop(), finds out.
NoticeLoss ==
  /\ sock = "up" /\ cut
  /\ sock' = "down" /\ inbox' = <<>>
  /\ UNCHANGED <<node, cut, subscribed, outbox, server, faults, log, done, refused>>

PowerCycle ==
  /\ faults < MaxFaults /\ faults' = faults + 1
  /\ gpioState' = AllLow /\ output' = AllLow /\ log' = Append(log, AllLow)
  /\ pc' = "loop" /\ request' = NoRequest
  /\ sock' = "down" /\ cut' = FALSE /\ subscribed' = FALSE
  /\ inbox' = <<>> /\ outbox' = <<>> /\ refused' = {}
  /\ UNCHANGED <<server, done>>

-----------------------------------------------------------------------------
Node ==
  \/ Connect \/ HandleMessage
  \/ \E outcome \in Outcomes :
       Subscribe(outcome) \/ Announce(outcome) \/ Reply(outcome) \/ Report(outcome)

Next ==
  \/ Node
  \/ \E r \in Requests, call \in Calls : Ask(r, call)
  \/ ServerTake \/ CutLink \/ NoticeLoss \/ PowerCycle

Spec == Init /\ [][Next]_vars

\* loop() runs on, a connect succeeds at last, data under way arrives, and a
\* dead connection is found; nothing else is assumed.
FairSpec == Spec /\ WF_vars(Node) /\ WF_vars(ServerTake) /\ WF_vars(NoticeLoss)

-----------------------------------------------------------------------------
(* Properties *)

States == [Pins -> BOOLEAN]
Asked  == [id : Requests, call : Calls]

\* Every variable has its type.
TypeOK ==
  /\ gpioState \in States /\ output \in States
  /\ pc \in {"loop", "subscribe", "announce", "reply", "report"}
  /\ request \in Asked \cup {NoRequest}
  /\ sock \in {"up", "down"} /\ cut \in BOOLEAN /\ subscribed \in BOOLEAN
  /\ inbox \in Seq(Asked)
  /\ outbox \in Seq([kind : {"attributes", "response"}, id : Requests \cup {"none"},
                     value : States, at : Nat])
  /\ shown \in [value : States, at : Nat]
  /\ answered \subseteq Requests /\ asked \subseteq Requests /\ faults \in Nat
  /\ log \in Seq(States) /\ done \in [Requests -> Nat]
  /\ refused \subseteq {"subscribe", "attributes"}

\* What the node tells of its pins, in an answer or as attributes, is what the
\* pins were when it was sent, and an answer tells them as its request left
\* them: nothing is carried out between a request and its answer.
ToldTruly ==
  /\ \A i \in 1 .. Len(outbox) :
       LET m == outbox[i] IN
         /\ m.at \in 1 .. Len(log) /\ m.value = log[m.at]
         /\ m.kind = "response" => m.at = done[m.id]
  /\ shown.at # 0 => shown.at \in 1 .. Len(log) /\ shown.value = log[shown.at]

\* While a connection carries data and loop() is between two calls, the newest
\* attributes, under way or shown, are the present state of the pins, unless the
\* write of the newest was refused, of which the sketch takes no notice: no answer,
\* lost link, torn write or restart leaves the dashboard behind for longer.
Announcements == {i \in 1 .. Len(outbox) : outbox[i].kind = "attributes"}
Newest(state) ==
  IF Announcements = {}
    THEN shown.value = state
    ELSE \E i \in Announcements :
           outbox[i].value = state /\ \A j \in Announcements : j <= i
AttributesCurrent ==
  pc = "loop" /\ sock = "up" /\ ~cut /\ "attributes" \notin refused => Newest(output)

\* When faults and requests end, the dashboard ends up showing the pins, and the
\* node ends up hearing requests, whichever publish or subscribe got lost; only what
\* is refused on the last connection is made up for by nothing.
DashboardCatchesUp ==
  <>[](/\ "subscribe" \in refused \/ subscribed
       /\ "attributes" \in refused \/ shown.value = output)

\* The node implements RemotePins.
Promise == INSTANCE RemotePins
  WITH log <- log, done <- done, answered <- answered, shown <- shown.at
ImplementsPins == Promise!Spec

=============================================================================
