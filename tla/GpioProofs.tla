----------------------------- MODULE GpioProofs -----------------------------
(***************************************************************************)
(* The GPIO node, for any set of pins, any requests and any number of      *)
(* faults: its types, that it tells its pins as they were and shows their  *)
(* present state, and that it implements RemotePins.                       *)
(***************************************************************************)
EXTENDS GpioNode, SequenceTheorems, TLAPS

Messages == [kind : {"attributes", "response"}, id : Requests \cup {"none"},
             value : States, at : Nat]

-----------------------------------------------------------------------------
(* The inductive invariant *)

\* The node believes what its pins are, and the log ends in it.
Present == log # <<>> /\ output = log[Len(log)] /\ gpioState = output

\* A request waits at most once, and only before it is carried out.
WaitsOnce ==
  /\ \A r \in Requests \ asked : done[r] = 0
  /\ \A i \in 1 .. Len(inbox) : inbox[i].id \in asked /\ done[inbox[i].id] = 0
  /\ \A i, j \in 1 .. Len(inbox) : inbox[i].id = inbox[j].id => i = j
  /\ \A r \in Requests : done[r] <= Len(log)

\* A request is answered at most once, and only after it is carried out.
Owed(r) == r \in Requests /\ done[r] # 0 /\ r \notin answered
AnswersOnce ==
  /\ \A r \in answered : done[r] # 0
  /\ \A i \in 1 .. Len(outbox) : outbox[i].kind = "response" => Owed(outbox[i].id)
  /\ \A i, j \in 1 .. Len(outbox) :
       outbox[i].kind = "response" /\ outbox[j].kind = "response"
         /\ outbox[i].id = outbox[j].id => i = j
  /\ pc = "reply" =>
       /\ request \in Asked /\ Owed(request.id) /\ done[request.id] = Len(log)
       /\ \A i \in 1 .. Len(outbox) :
            outbox[i].kind = "response" => outbox[i].id # request.id

\* Announcements are under way in the order of the states they tell.
InOrder ==
  \A i \in 1 .. Len(outbox) : outbox[i].kind = "attributes" =>
    /\ shown.at <= outbox[i].at
    /\ \A j \in i .. Len(outbox) :
         outbox[j].kind = "attributes" => outbox[i].at <= outbox[j].at

\* Between a set request and its report the dashboard is behind, and between
\* a connect and its announcement.
UpToDate ==
  sock = "up" /\ ~cut /\ "attributes" \notin refused
      /\ (pc = "loop" \/ (pc = "reply" /\ request.call.method = "get"))
    => Newest(output)

IInv == TypeOK /\ Present /\ WaitsOnce /\ AnswersOnce /\ ToldTruly /\ InOrder /\ UpToDate

-----------------------------------------------------------------------------
(* Types *)

\* What get_gpio_status() puts in a message.
LEMMA StatusType ==
  ASSUME TypeOK, NEW kind \in {"attributes", "response"}, NEW id \in Requests \cup {"none"}
  PROVE  Status(kind, id) \in Messages
  BY DEF TypeOK, Status, Messages

\* publish() adds at most that message.
LEMMA PublishType ==
  ASSUME TypeOK, NEW kind \in {"attributes", "response"}, NEW id \in Requests \cup {"none"},
         NEW outcome, Publish(kind, id, outcome)
  PROVE  /\ outbox' \in Seq(Messages) /\ faults' \in Nat /\ cut' \in BOOLEAN
         /\ subscribed' \in BOOLEAN /\ refused' \subseteq {"subscribe", "attributes"}
  <1>1. outbox \in Seq(Messages)
    BY DEF TypeOK, Messages
  <1>2. outbox' \in Seq(Messages)
    <2>1. \/ outbox' = <<>> \/ outbox' = outbox \/ outbox' = Append(outbox, Status(kind, id))
      BY DEF Publish
    <2>2. Status(kind, id) \in Messages
      BY StatusType
    <2>3. \A m \in Messages : Append(outbox, m) \in Seq(Messages)
      BY <1>1, AppendProperties
    <2>4. <<>> \in Seq(Messages)
      OBVIOUS
    <2> QED
      BY <1>1, <2>1, <2>2, <2>3, <2>4
  <1>3. faults' \in Nat /\ cut' \in BOOLEAN /\ subscribed' \in BOOLEAN
    BY DEF Publish, Written, TypeOK
  <1>4. refused' \subseteq {"subscribe", "attributes"}
    <2>1. refused \subseteq {"subscribe", "attributes"}
      BY DEF TypeOK
    <2>2. CASE kind = "response"
      <3>1. refused' = refused
        BY <2>2 DEF Publish
      <3> QED
        BY <2>1, <3>1
    <2>3. CASE kind = "attributes"
      <3>1. refused' = refused \cup {"attributes"} \/ refused' = refused \ {"attributes"}
        BY <2>3 DEF Publish
      <3> QED
        BY <2>1, <3>1
    <2> QED
      BY <2>2, <2>3
  <1> QED
    BY <1>2, <1>3, <1>4

\* The node starts without a connection, all its pins low.
LEMMA TypeInit == Init => TypeOK
  <1> SUFFICES ASSUME Init PROVE TypeOK
    OBVIOUS
  <1>1. AllLow \in States
    BY DEF AllLow, States
  <1>2. inbox \in Seq(Asked) /\ outbox \in Seq(Messages)
    BY DEF Init
  <1>3. log \in Seq(States) /\ shown \in [value : States, at : Nat]
          /\ done \in [Requests -> Nat] /\ faults \in Nat
    BY <1>1 DEF Init
  <1> QED
    BY <1>1, <1>2, <1>3 DEF Init, TypeOK, Messages

\* A pin that is set leaves a state of all the pins.
LEMMA SetType ==
  ASSUME NEW s \in States, NEW p \in Pins, NEW on \in BOOLEAN
  PROVE  [s EXCEPT ![p] = on] \in States
  BY DEF States

\* Every step of the node, the server and the link keeps the types.
LEMMA TypeStep == TypeOK /\ AnswersOnce /\ [Next]_vars => TypeOK'
  <1> SUFFICES ASSUME TypeOK, AnswersOnce, [Next]_vars PROVE TypeOK'
    OBVIOUS
  <1>m. Messages = [kind : {"attributes", "response"}, id : Requests \cup {"none"},
                    value : States, at : Nat]
    BY DEF Messages
  <1>1. CASE Connect
    <2>1. inbox' \in Seq(Asked) /\ outbox' \in Seq(Messages)
      BY <1>1 DEF Connect
    <2> QED
      BY <1>1, <2>1, <1>m DEF Connect, TypeOK, server
  <1>2. ASSUME NEW outcome \in Outcomes, Subscribe(outcome) PROVE TypeOK'
    <2>1. faults' \in Nat /\ cut' \in BOOLEAN /\ subscribed' \in BOOLEAN
      BY <1>2 DEF Subscribe, Written, Arrives, TypeOK
    <2>2. refused' \subseteq {"subscribe", "attributes"}
      BY <1>2 DEF Subscribe, TypeOK
    <2> QED
      BY <1>2, <2>1, <2>2 DEF Subscribe, TypeOK, server
  <1>3. ASSUME NEW outcome \in Outcomes, Announce(outcome) PROVE TypeOK'
    <2>1. /\ outbox' \in Seq(Messages) /\ faults' \in Nat /\ cut' \in BOOLEAN
          /\ subscribed' \in BOOLEAN /\ refused' \subseteq {"subscribe", "attributes"}
      BY <1>3, PublishType DEF Announce
    <2> QED
      BY <1>3, <2>1, <1>m DEF Announce, TypeOK, server
  <1>4. CASE HandleMessage
    <2>1. Head(inbox) \in Asked /\ inbox' \in Seq(Asked)
      BY <1>4 DEF HandleMessage, Taken, TypeOK
    <2>2. output' \in States /\ gpioState' \in States /\ log' \in Seq(States)
      <3>1. CASE Head(inbox).call.method = "set"
        <4>1. Head(inbox).call.pin \in Pins /\ Head(inbox).call.enabled \in BOOLEAN
          BY <2>1, <3>1 DEF Asked, Calls
        <4> DEFINE call == Head(inbox).call
        <4>3. output' = [output EXCEPT ![call.pin] = call.enabled]
                /\ gpioState' = [gpioState EXCEPT ![call.pin] = call.enabled]
          BY <1>4, <3>1 DEF HandleMessage, Believed
        <4>4. output \in States /\ gpioState \in States
          BY DEF TypeOK
        <4>2. output' \in States /\ gpioState' \in States
          BY <4>1, <4>3, <4>4, SetType
        <4>5. log' = Append(log, output') /\ log \in Seq(States)
          BY <1>4, <3>1 DEF HandleMessage, TypeOK
        <4> HIDE DEF call
        <4> QED
          BY <4>2, <4>5
      <3>2. CASE Head(inbox).call.method # "set"
        BY <1>4, <3>2 DEF HandleMessage, TypeOK
      <3> QED
        BY <3>1, <3>2
    <2>3. Head(inbox).id \in Requests /\ Len(log') \in Nat
      BY <2>1, <2>2 DEF Asked
    <2>4. pc' \in {"loop", "subscribe", "announce", "reply", "report"}
            /\ request' \in Asked \cup {NoRequest} /\ done' \in [Requests -> Nat]
      BY <1>4, <2>1, <2>3 DEF HandleMessage, TypeOK
    <2> QED
      BY <1>4, <2>1, <2>2, <2>4 DEF HandleMessage, TypeOK, server
  <1>5. ASSUME NEW outcome \in Outcomes, Reply(outcome) PROVE TypeOK'
    <2>1. CASE request.id \in Requests \cup {"none"}
      <3>1. /\ outbox' \in Seq(Messages) /\ faults' \in Nat /\ cut' \in BOOLEAN
            /\ subscribed' \in BOOLEAN /\ refused' \subseteq {"subscribe", "attributes"}
        BY <1>5, <2>1, PublishType DEF Reply
      <3> QED
        BY <1>5, <3>1, <1>m DEF Reply, TypeOK, server
    <2> QED
      BY <2>1 DEF TypeOK, Asked, NoRequest
  <1>6. ASSUME NEW outcome \in Outcomes, Report(outcome) PROVE TypeOK'
    <2>1. /\ outbox' \in Seq(Messages) /\ faults' \in Nat /\ cut' \in BOOLEAN
          /\ subscribed' \in BOOLEAN /\ refused' \subseteq {"subscribe", "attributes"}
      BY <1>6, PublishType DEF Report
    <2> QED
      BY <1>6, <2>1, <1>m DEF Report, TypeOK, server
  <1>7. ASSUME NEW r \in Requests, NEW call \in Calls, Ask(r, call) PROVE TypeOK'
    <2>1. [id |-> r, call |-> call] \in Asked
      BY DEF Asked
    <2>2. inbox' \in Seq(Asked)
      BY <1>7, <2>1 DEF Ask, TypeOK
    <2> QED
      BY <1>7, <2>2 DEF Ask, TypeOK, node
  <1>8. CASE ServerTake
    <2>1. outbox \in Seq(Messages) /\ outbox # <<>>
      BY <1>8, <1>m DEF ServerTake, TypeOK
    <2>2. Head(outbox) \in Messages /\ outbox' \in Seq(Messages)
      BY <1>8, <2>1 DEF ServerTake
    <2>5. [value |-> Head(outbox).value, at |-> Head(outbox).at] \in [value : States, at : Nat]
      BY <2>2 DEF Messages
    <2>6. shown \in [value : States, at : Nat]
      BY DEF TypeOK
    <2>7. shown' = [value |-> Head(outbox).value, at |-> Head(outbox).at]
            \/ shown' = shown
      BY <1>8 DEF ServerTake
    <2>3. shown' \in [value : States, at : Nat]
      BY <2>5, <2>6, <2>7
    <2>9. Head(outbox).kind = "response" => Head(outbox).id \in Requests
      BY <2>1 DEF AnswersOnce, Owed
    <2>4. answered' \subseteq Requests
      BY <1>8, <2>2, <2>9 DEF ServerTake, TypeOK, Messages
    <2>8. UNCHANGED <<gpioState, output, pc, request, sock, cut, subscribed, inbox,
                      asked, faults, log, done, refused>>
      BY <1>8, ZenonT(30) DEF ServerTake, node
    <2> QED
      BY <2>2, <2>3, <2>4, <2>8, <1>m DEF TypeOK
  <1>9. CASE CutLink
    <2>1. inbox' \in Seq(Asked)
      BY <1>9 DEF CutLink, TypeOK
    <2>2. faults' \in Nat
      BY <1>9 DEF CutLink, TypeOK
    <2>3. outbox' \in Seq(Messages)
      BY <1>9 DEF CutLink
    <2> QED
      BY <1>9, <2>1, <2>2, <2>3, <1>m DEF CutLink, TypeOK, node, server
  <1>10. CASE NoticeLoss
    BY <1>10 DEF NoticeLoss, TypeOK, node, server
  <1>11. CASE PowerCycle
    <2>1. AllLow \in States
      BY DEF AllLow, States
    <2>2. faults' \in Nat /\ log' \in Seq(States)
      BY <1>11, <2>1 DEF PowerCycle, TypeOK
    <2>3. inbox' \in Seq(Asked) /\ outbox' \in Seq(Messages)
      BY <1>11 DEF PowerCycle
    <2> QED
      BY <1>11, <2>1, <2>2, <2>3, <1>m DEF PowerCycle, TypeOK, server
  <1>12. CASE UNCHANGED vars
    BY <1>12 DEF vars, node, network, server, TypeOK
  <1> QED
    BY <1>1, <1>2, <1>3, <1>4, <1>5, <1>6, <1>7, <1>8, <1>9, <1>10, <1>11, <1>12
       DEF Next, Node

-----------------------------------------------------------------------------
(* The other parts of the invariant, one lemma per part *)

\* Initially nothing is asked, under way or shown.
LEMMA InvInit == Init => IInv
  <1> SUFFICES ASSUME Init PROVE IInv
    OBVIOUS
  <1>1. Present /\ ToldTruly /\ InOrder
    BY DEF Init, Present, ToldTruly, InOrder
  <1>2. WaitsOnce
    BY DEF Init, WaitsOnce
  <1>3. AnswersOnce /\ UpToDate
    BY DEF Init, AnswersOnce, UpToDate
  <1> QED
    BY <1>1, <1>2, <1>3, TypeInit DEF IInv

\* The log grows by one state, or not at all.
LEMMA LogStep ==
  ASSUME IInv, [Next]_vars
  PROVE  \/ log' = log /\ output' = output /\ gpioState' = gpioState
         \/ /\ output' \in States /\ gpioState' = output'
            /\ log' = Append(log, output')
            /\ HandleMessage \/ PowerCycle
  <1>1. CASE HandleMessage
    BY <1>1, TypeStep DEF HandleMessage, Believed, IInv, Present, TypeOK
  <1>2. CASE PowerCycle
    BY <1>2, TypeStep DEF PowerCycle, IInv, TypeOK
  <1>3. CASE ~HandleMessage /\ ~PowerCycle
    BY <1>3 DEF Next, Node, Connect, Subscribe, Announce, Reply, Report, Ask,
         ServerTake, CutLink, NoticeLoss, vars, node
  <1> QED
    BY <1>1, <1>2, <1>3

\* The states the pins have been at stay in the log.
LEMMA LogGrows ==
  ASSUME IInv, [Next]_vars
  PROVE  /\ log' \in Seq(States) /\ Len(log) <= Len(log')
         /\ \A i \in 1 .. Len(log) : log'[i] = log[i]
  <1>1. log \in Seq(States)
    BY DEF IInv, TypeOK
  <1>2. ASSUME NEW s \in States
        PROVE  /\ Append(log, s) \in Seq(States) /\ Len(Append(log, s)) = Len(log) + 1
               /\ \A i \in 1 .. Len(log) : Append(log, s)[i] = log[i]
    BY <1>1
  <1>3. log' = log \/ \E s \in States : log' = Append(log, s)
    BY LogStep
  <1> QED
    BY <1>1, <1>2, <1>3

\* The pins are what the log ends in.
LEMMA PresentStep == IInv /\ [Next]_vars => Present'
  <1> SUFFICES ASSUME IInv, [Next]_vars PROVE Present'
    OBVIOUS
  <1>1. log \in Seq(States) /\ Present
    BY DEF IInv, TypeOK
  <1> QED
    BY <1>1, LogStep DEF Present

\* A request waits once: it is only put in the queue when it is new.
LEMMA WaitsStep == IInv /\ [Next]_vars => WaitsOnce'
  <1> SUFFICES ASSUME IInv, [Next]_vars PROVE WaitsOnce'
    OBVIOUS
  <1>t. /\ inbox \in Seq(Asked) /\ log \in Seq(States) /\ done \in [Requests -> Nat]
        /\ asked \subseteq Requests /\ WaitsOnce /\ log # <<>>
    BY DEF IInv, TypeOK, Present
  <1>l. log' \in Seq(States) /\ Len(log) <= Len(log')
    BY LogGrows
  <1>1. CASE HandleMessage
    <2>1. /\ inbox # <<>> /\ inbox' = Tail(inbox) /\ asked' = asked
          /\ done' = done \/ done' = [done EXCEPT ![Head(inbox).id] = Len(log')]
      BY <1>1 DEF HandleMessage, Taken, server
    <2>2. Head(inbox) = inbox[1] /\ Head(inbox).id \in asked
      BY <1>t, <2>1 DEF WaitsOnce
    <2>3. \A i \in 1 .. Len(inbox') : i + 1 \in 1 .. Len(inbox) /\ inbox'[i] = inbox[i + 1]
      BY <1>t, <2>1
    <2>4. \A i \in 1 .. Len(inbox') : inbox'[i].id # Head(inbox).id /\ inbox'[i].id \in asked
      BY <1>t, <2>1, <2>2, <2>3 DEF WaitsOnce
    <2>5. \A r \in Requests : r # Head(inbox).id => done'[r] = done[r]
      BY <1>t, <2>1
    <2>6. \A i \in 1 .. Len(inbox') : done'[inbox'[i].id] = 0
      BY <1>t, <2>3, <2>4, <2>5 DEF WaitsOnce
    <2>7. \A r \in Requests \ asked : done'[r] = 0
      BY <1>t, <2>2, <2>5 DEF WaitsOnce
    <2>8. \A r \in Requests : done'[r] <= Len(log')
      BY <1>t, <1>l, <2>1, <2>5 DEF WaitsOnce
    <2>9. \A i, j \in 1 .. Len(inbox') : inbox'[i].id = inbox'[j].id => i = j
      BY <1>t, <2>3 DEF WaitsOnce
    <2> QED
      BY <2>1, <2>4, <2>6, <2>7, <2>8, <2>9 DEF WaitsOnce
  <1>2. ASSUME NEW r \in Requests, NEW call \in Calls, Ask(r, call) PROVE WaitsOnce'
    <2>1. /\ r \notin asked /\ asked' = asked \cup {r} /\ done' = done /\ log' = log
          /\ inbox' = inbox \/ inbox' = Append(inbox, [id |-> r, call |-> call])
      BY <1>2 DEF Ask
    <2>2. /\ \A i \in 1 .. Len(inbox) : inbox[i].id # r
          /\ done[r] = 0
      BY <1>t, <2>1 DEF WaitsOnce
    <2>3. \A i \in 1 .. Len(inbox') :
             \/ i \in 1 .. Len(inbox) /\ inbox'[i] = inbox[i]
             \/ i = Len(inbox) + 1 /\ inbox'[i].id = r
      <3> DEFINE q == [id |-> r, call |-> call]
      <3>1. q \in Asked /\ q.id = r
        BY DEF Asked
      <3>2. inbox' = inbox \/ inbox' = Append(inbox, q)
        BY <2>1
      <3> HIDE DEF q
      <3>3. \A i \in 1 .. Len(inbox') :
               \/ i \in 1 .. Len(inbox) /\ inbox'[i] = inbox[i]
               \/ i = Len(inbox) + 1 /\ inbox'[i] = q
        BY <1>t, <3>1, <3>2
      <3> QED
        BY <3>1, <3>3
    <2>4. \A i \in 1 .. Len(inbox') : inbox'[i].id \in asked' /\ done'[inbox'[i].id] = 0
      BY <1>t, <2>1, <2>2, <2>3 DEF WaitsOnce
    <2>5. \A i, j \in 1 .. Len(inbox') : inbox'[i].id = inbox'[j].id => i = j
      BY <1>t, <2>1, <2>2, <2>3 DEF WaitsOnce
    <2>6. \A q \in Requests \ asked' : done'[q] = 0
      BY <1>t, <2>1 DEF WaitsOnce
    <2>7. \A q \in Requests : done'[q] <= Len(log')
      BY <1>t, <2>1 DEF WaitsOnce
    <2> QED
      BY <2>4, <2>5, <2>6, <2>7 DEF WaitsOnce
  <1>3. CASE CutLink
    <2>1. PICK n \in 0 .. Len(inbox) : inbox' = SubSeq(inbox, 1, n)
      BY <1>3 DEF CutLink
    <2>2. \A i \in 1 .. Len(inbox') : i \in 1 .. Len(inbox) /\ inbox'[i] = inbox[i]
      BY <1>t, <2>1
    <2>3. asked' = asked /\ done' = done /\ log' = log
      BY <1>3 DEF CutLink, server
    <2> QED
      BY <1>t, <2>2, <2>3 DEF WaitsOnce
  <1>4. CASE inbox' = <<>> /\ asked' = asked /\ done' = done
    BY <1>t, <1>l, <1>4 DEF WaitsOnce
  <1>5. CASE inbox' = inbox /\ asked' = asked /\ done' = done /\ log' = log
    BY <1>t, <1>5 DEF WaitsOnce
  <1> QED
    BY <1>1, <1>2, <1>3, <1>4, <1>5
       DEF Next, Node, Connect, Subscribe, Announce, Reply, Report, ServerTake,
           NoticeLoss, PowerCycle, vars, node, network, server

\* A request carried out stays carried out.
LEMMA DoneStays ==
  ASSUME IInv, [Next]_vars
  PROVE  /\ done' \in [Requests -> Nat]
         /\ \A r \in Requests : done[r] # 0 => done'[r] = done[r]
  <1>t. inbox \in Seq(Asked) /\ WaitsOnce /\ done \in [Requests -> Nat]
    BY DEF IInv, TypeOK
  <1>n. done' \in [Requests -> Nat]
    BY TypeStep DEF IInv, TypeOK
  <1>1. CASE HandleMessage
    <2>1. /\ inbox # <<>>
          /\ done' = done \/ done' = [done EXCEPT ![Head(inbox).id] = Len(log')]
      BY <1>1 DEF HandleMessage
    <2>2. done[Head(inbox).id] = 0
      BY <1>t, <2>1 DEF WaitsOnce
    <2> QED
      BY <1>t, <1>n, <2>1, <2>2
  <1>2. CASE ~HandleMessage
    <2>1. done' = done
      BY <1>2 DEF Next, Node, Connect, Subscribe, Announce, Reply, Report, Ask,
         ServerTake, CutLink, NoticeLoss, PowerCycle, vars
    <2> QED
      BY <1>t, <2>1
  <1> QED
    BY <1>1, <1>2

\* A message just sent tells the present state, and answers the request at work.
Fresh(m) ==
  /\ m.value = gpioState /\ m.at = Len(log)
  /\ log' = log /\ done' = done /\ pc' # "reply"
  /\ m.kind = "response" => pc = "reply" /\ m.id = request.id

\* publish() sends at most one message, as the last one.
LEMMA PublishAdds ==
  ASSUME IInv, NEW kind \in {"attributes", "response"}, NEW id \in Requests \cup {"none"},
         NEW outcome, Publish(kind, id, outcome), log' = log, done' = done, pc' # "reply",
         kind = "response" => pc = "reply" /\ id = request.id
  PROVE  \A i \in 1 .. Len(outbox') :
           \/ i <= Len(outbox) /\ outbox'[i] = outbox[i]
           \/ i = Len(outbox') /\ Fresh(outbox'[i])
  <1>1. outbox \in Seq(Messages)
    BY DEF IInv, TypeOK, Messages
  <1>2. Status(kind, id) \in Messages /\ Fresh(Status(kind, id))
    <2>1. Status(kind, id) \in Messages
      BY StatusType DEF IInv
    <2> QED
      BY <2>1 DEF Fresh, Status
  <1>3. outbox' = outbox \/ outbox' = <<>> \/ outbox' = Append(outbox, Status(kind, id))
    BY DEF Publish
  <1> QED
    BY <1>1, <1>2, <1>3

\* Only the server takes messages; otherwise those under way stay, or are lost
\* all together, and at most one is added.
LEMMA OutboxStep ==
  ASSUME IInv, [Next]_vars, ~ServerTake
  PROVE  /\ shown' = shown /\ answered' = answered
         /\ \A i \in 1 .. Len(outbox') :
              \/ i <= Len(outbox) /\ outbox'[i] = outbox[i]
              \/ i = Len(outbox') /\ Fresh(outbox'[i])
  <1>1. shown' = shown /\ answered' = answered
    BY DEF Next, Node, Connect, Subscribe, Announce, HandleMessage, Reply, Report, Ask,
       CutLink, NoticeLoss, PowerCycle, vars, server
  <1>t. outbox \in Seq(Messages)
    BY DEF IInv, TypeOK, Messages
  <1>2. ASSUME NEW outcome \in Outcomes, Announce(outcome)
        PROVE  \A i \in 1 .. Len(outbox') :
                 \/ i <= Len(outbox) /\ outbox'[i] = outbox[i]
                 \/ i = Len(outbox') /\ Fresh(outbox'[i])
    <2>1. Publish("attributes", "none", outcome) /\ log' = log /\ done' = done /\ pc' # "reply"
      BY <1>2 DEF Announce
    <2> QED
      BY <1>1, <2>1, PublishAdds
  <1>3. ASSUME NEW outcome \in Outcomes, Reply(outcome)
        PROVE  \A i \in 1 .. Len(outbox') :
                 \/ i <= Len(outbox) /\ outbox'[i] = outbox[i]
                 \/ i = Len(outbox') /\ Fresh(outbox'[i])
    <2>1. Publish("response", request.id, outcome) /\ log' = log /\ done' = done
            /\ pc' # "reply" /\ pc = "reply"
      BY <1>3 DEF Reply
    <2>2. request.id \in Requests
      BY <2>1 DEF IInv, AnswersOnce, Owed
    <2> QED
      BY <1>1, <2>1, <2>2, PublishAdds
  <1>4. ASSUME NEW outcome \in Outcomes, Report(outcome)
        PROVE  \A i \in 1 .. Len(outbox') :
                 \/ i <= Len(outbox) /\ outbox'[i] = outbox[i]
                 \/ i = Len(outbox') /\ Fresh(outbox'[i])
    <2>1. Publish("attributes", "none", outcome) /\ log' = log /\ done' = done /\ pc' # "reply"
      BY <1>4 DEF Report
    <2> QED
      BY <1>1, <2>1, PublishAdds
  <1>5. CASE outbox' = outbox
    BY <1>1, <1>t, <1>5
  <1>6. CASE outbox' = <<>>
    BY <1>1, <1>6
  <1> QED
    BY <1>1, <1>2, <1>3, <1>4, <1>5, <1>6
       DEF Next, Node, Connect, Subscribe, HandleMessage, Ask, CutLink, NoticeLoss,
           PowerCycle, vars, network

\* What the server takes is the first message, and the others move up.
LEMMA TakeStep ==
  ASSUME IInv, ServerTake
  PROVE  /\ outbox # <<>> /\ outbox[1] \in Messages
         /\ \A i \in 1 .. Len(outbox') : i + 1 \in 1 .. Len(outbox) /\ outbox'[i] = outbox[i + 1]
         /\ UNCHANGED <<log, done, pc, request, output, sock, cut, refused>>
         /\ \/ /\ outbox[1].kind = "attributes" /\ answered' = answered
               /\ shown'.at = outbox[1].at /\ shown'.value = outbox[1].value
            \/ /\ outbox[1].kind = "response" /\ shown' = shown
               /\ answered' = answered \cup {outbox[1].id}
  <1>1. outbox \in Seq(Messages) /\ outbox # <<>> /\ outbox' = Tail(outbox)
    BY DEF IInv, TypeOK, Messages, ServerTake
  <1>2. outbox[1] \in Messages /\ Head(outbox) = outbox[1]
    BY <1>1
  <1>3. \A i \in 1 .. Len(outbox') : i + 1 \in 1 .. Len(outbox) /\ outbox'[i] = outbox[i + 1]
    BY <1>1
  <1>4. UNCHANGED <<log, done, pc, request, output, sock, cut, refused>>
    BY ZenonT(30) DEF ServerTake, node
  <1>5. CASE outbox[1].kind = "attributes"
    BY <1>1, <1>2, <1>3, <1>4, <1>5 DEF ServerTake
  <1>6. CASE outbox[1].kind # "attributes"
    <2>1. outbox[1].kind = "response"
      BY <1>2, <1>6 DEF Messages
    <2> QED
      BY <1>1, <1>2, <1>3, <1>4, <1>6, <2>1 DEF ServerTake
  <1> QED
    BY <1>5, <1>6

\* What a message tells, and what it says of a request.
True(m) ==
  /\ m.at \in 1 .. Len(log) /\ m.value = log[m.at]
  /\ m.kind = "response" => m.at = done[m.id]

\* A message under way stays true.
LEMMA StaysTrue ==
  ASSUME IInv, [Next]_vars, NEW i \in 1 .. Len(outbox)
  PROVE  /\ outbox[i].at \in 1 .. Len(log') /\ outbox[i].value = log'[outbox[i].at]
         /\ outbox[i].kind = "response" => outbox[i].at = done'[outbox[i].id]
  <1>1. True(outbox[i]) /\ log \in Seq(States)
    BY DEF IInv, ToldTruly, True, TypeOK
  <1>2. outbox[i].kind = "response" => done'[outbox[i].id] = done[outbox[i].id]
    BY DoneStays DEF IInv, AnswersOnce, Owed
  <1> QED
    BY <1>1, <1>2, LogGrows DEF True

\* What is told stays true: the log only grows, and what a request did is done.
LEMMA ToldStep == IInv /\ [Next]_vars => ToldTruly'
  <1> SUFFICES ASSUME IInv, [Next]_vars PROVE ToldTruly'
    OBVIOUS
  <1>t. /\ ToldTruly /\ Present /\ AnswersOnce /\ log \in Seq(States)
        /\ outbox \in Seq(Messages) /\ shown \in [value : States, at : Nat]
    BY DEF IInv, TypeOK, Messages
  <1>1. CASE ServerTake
    <2>1. \A i \in 1 .. Len(outbox') :
            /\ outbox'[i].at \in 1 .. Len(log') /\ outbox'[i].value = log'[outbox'[i].at]
            /\ outbox'[i].kind = "response" => outbox'[i].at = done'[outbox'[i].id]
      BY <1>1, TakeStep, StaysTrue
    <2>2. outbox # <<>> /\ log' = log
      BY <1>1, TakeStep
    <2>3. outbox[1].at \in 1 .. Len(log) /\ outbox[1].value = log[outbox[1].at]
      BY <1>t, <2>2 DEF ToldTruly
    <2>4. shown'.at # 0 => shown'.at \in 1 .. Len(log') /\ shown'.value = log'[shown'.at]
      BY <1>1, <1>t, <2>2, <2>3, TakeStep DEF ToldTruly
    <2> QED
      BY <2>1, <2>4 DEF ToldTruly
  <1>2. CASE ~ServerTake
    <2>1. \A i \in 1 .. Len(outbox') :
            /\ outbox'[i].at \in 1 .. Len(log') /\ outbox'[i].value = log'[outbox'[i].at]
            /\ outbox'[i].kind = "response" => outbox'[i].at = done'[outbox'[i].id]
      <3> SUFFICES ASSUME NEW i \in 1 .. Len(outbox')
                   PROVE
            /\ outbox'[i].at \in 1 .. Len(log') /\ outbox'[i].value = log'[outbox'[i].at]
            /\ outbox'[i].kind = "response" => outbox'[i].at = done'[outbox'[i].id]
        OBVIOUS
      <3>1. CASE i <= Len(outbox) /\ outbox'[i] = outbox[i]
        <4>1. i \in 1 .. Len(outbox)
          BY <3>1, <1>t
        <4> QED
          BY <3>1, <4>1, StaysTrue
      <3>2. CASE Fresh(outbox'[i])
        BY <3>2, <1>t DEF Fresh, Present, AnswersOnce
      <3> QED
        BY <1>2, <3>1, <3>2, OutboxStep
    <2>2. shown' = shown /\ log' \in Seq(States) /\ Len(log) <= Len(log')
            /\ \A i \in 1 .. Len(log) : log'[i] = log[i]
      BY <1>2, OutboxStep, LogGrows
    <2>3. shown'.at # 0 => shown'.at \in 1 .. Len(log') /\ shown'.value = log'[shown'.at]
      BY <1>t, <2>2 DEF ToldTruly
    <2> QED
      BY <2>1, <2>3 DEF ToldTruly
  <1> QED
    BY <1>1, <1>2

\* Messages are sent in the order of the states they tell, and stay in it.
LEMMA OrderStep == IInv /\ [Next]_vars => InOrder'
  <1> SUFFICES ASSUME IInv, [Next]_vars PROVE InOrder'
    OBVIOUS
  <1>t. /\ ToldTruly /\ InOrder /\ log \in Seq(States)
        /\ outbox \in Seq(Messages) /\ shown \in [value : States, at : Nat]
    BY DEF IInv, TypeOK, Messages
  <1>u. outbox' \in Seq(Messages)
    BY TypeStep DEF IInv, TypeOK, Messages
  <1>1. CASE ServerTake
    <2>1. /\ outbox # <<>>
          /\ \A i \in 1 .. Len(outbox') : i + 1 \in 1 .. Len(outbox) /\ outbox'[i] = outbox[i + 1]
      BY <1>1, TakeStep
    <2>2. \/ outbox[1].kind = "attributes" /\ shown'.at = outbox[1].at
          \/ shown' = shown
      BY <1>1, TakeStep
    <2>3. \A i \in 1 .. Len(outbox') : outbox'[i].kind = "attributes" =>
            shown'.at <= outbox'[i].at
      BY <1>t, <1>u, <2>1, <2>2 DEF InOrder
    <2>4. \A i \in 1 .. Len(outbox') : outbox'[i].kind = "attributes" =>
            \A j \in i .. Len(outbox') :
              outbox'[j].kind = "attributes" => outbox'[i].at <= outbox'[j].at
      <3> SUFFICES ASSUME NEW i \in 1 .. Len(outbox'), NEW j \in i .. Len(outbox'),
                          outbox'[i].kind = "attributes", outbox'[j].kind = "attributes"
                   PROVE  outbox'[i].at <= outbox'[j].at
        OBVIOUS
      <3>1. j \in 1 .. Len(outbox')
        BY <1>u
      <3>2. i + 1 \in 1 .. Len(outbox) /\ j + 1 \in (i + 1) .. Len(outbox)
        BY <1>t, <1>u, <2>1, <3>1
      <3>3. outbox'[i] = outbox[i + 1] /\ outbox'[j] = outbox[j + 1]
        BY <2>1, <3>1
      <3> QED
        BY <1>t, <3>2, <3>3 DEF InOrder
    <2> QED
      BY <2>3, <2>4 DEF InOrder
  <1>2. CASE ~ServerTake
    <2>1. /\ shown' = shown
          /\ \A i \in 1 .. Len(outbox') :
               \/ i <= Len(outbox) /\ outbox'[i] = outbox[i]
               \/ i = Len(outbox') /\ outbox'[i].at = Len(log)
      BY <1>2, OutboxStep DEF Fresh
    <2>2. /\ \A i \in 1 .. Len(outbox) : outbox[i].at <= Len(log)
          /\ shown.at <= Len(log)
      BY <1>t DEF ToldTruly
    <2>3. \A i \in 1 .. Len(outbox') : outbox'[i].kind = "attributes" =>
            shown'.at <= outbox'[i].at
      BY <1>t, <1>u, <2>1, <2>2 DEF InOrder
    <2>4. \A i \in 1 .. Len(outbox') : outbox'[i].kind = "attributes" =>
            \A j \in i .. Len(outbox') :
              outbox'[j].kind = "attributes" => outbox'[i].at <= outbox'[j].at
      BY <1>t, <1>u, <2>1, <2>2 DEF InOrder
    <2> QED
      BY <2>3, <2>4 DEF InOrder
  <1> QED
    BY <1>1, <1>2

\* A request is answered once: the server takes an answer under way, and none is
\* sent for a request that has one.
LEMMA AnswersStep == IInv /\ [Next]_vars => AnswersOnce'
  <1> SUFFICES ASSUME IInv, [Next]_vars PROVE AnswersOnce'
    OBVIOUS
  <1>t. /\ AnswersOnce /\ WaitsOnce /\ Present /\ log \in Seq(States) /\ inbox \in Seq(Asked)
        /\ answered \subseteq Requests /\ done \in [Requests -> Nat]
    BY DEF IInv, TypeOK
  <1>u. outbox \in Seq(Messages) /\ outbox' \in Seq(Messages)
    BY TypeStep DEF IInv, TypeOK, Messages
  <1>d. \A r \in Requests : done[r] # 0 => done'[r] # 0
    BY DoneStays
  <1>1. CASE ServerTake
    <2>1. /\ outbox # <<>>
          /\ \A i \in 1 .. Len(outbox') : i + 1 \in 1 .. Len(outbox) /\ outbox'[i] = outbox[i + 1]
          /\ UNCHANGED <<log, done, pc, request>>
      BY <1>1, TakeStep
    <2>2. \/ outbox[1].kind = "attributes" /\ answered' = answered
          \/ outbox[1].kind = "response" /\ answered' = answered \cup {outbox[1].id}
      BY <1>1, TakeStep
    <2>3. 1 \in 1 .. Len(outbox)
      BY <1>u, <2>1
    <2>4. \A r \in answered' : done'[r] # 0
      BY <1>t, <2>1, <2>2, <2>3 DEF AnswersOnce, Owed
    <2>5. \A i \in 1 .. Len(outbox') : outbox'[i].kind = "response" =>
            Owed(outbox'[i].id) /\ outbox'[i].id \notin answered'
      <3> SUFFICES ASSUME NEW i \in 1 .. Len(outbox'), outbox'[i].kind = "response"
                   PROVE  Owed(outbox'[i].id) /\ outbox'[i].id \notin answered'
        OBVIOUS
      <3>1. i + 1 \in 1 .. Len(outbox) /\ outbox'[i] = outbox[i + 1] /\ i + 1 # 1
        BY <1>u, <2>1
      <3> QED
        BY <1>t, <2>2, <2>3, <3>1 DEF AnswersOnce, Owed
    <2>6. \A i, j \in 1 .. Len(outbox') :
            outbox'[i].kind = "response" /\ outbox'[j].kind = "response"
              /\ outbox'[i].id = outbox'[j].id => i = j
      <3> SUFFICES ASSUME NEW i \in 1 .. Len(outbox'), NEW j \in 1 .. Len(outbox'),
                          outbox'[i].kind = "response" /\ outbox'[j].kind = "response"
                            /\ outbox'[i].id = outbox'[j].id
                   PROVE  i = j
        OBVIOUS
      <3>1. i + 1 = j + 1
        BY <1>t, <2>1 DEF AnswersOnce
      <3> QED
        BY <3>1
    <2>7. pc = "reply" =>
            /\ request \in Asked /\ Owed(request.id) /\ done[request.id] = Len(log)
            /\ request.id \notin answered'
            /\ \A i \in 1 .. Len(outbox') :
                 outbox'[i].kind = "response" => outbox'[i].id # request.id
      <3> SUFFICES ASSUME pc = "reply"
                   PROVE  /\ request \in Asked /\ Owed(request.id) /\ done[request.id] = Len(log)
                          /\ request.id \notin answered'
                          /\ \A i \in 1 .. Len(outbox') :
                               outbox'[i].kind = "response" => outbox'[i].id # request.id
        OBVIOUS
      <3>1. request \in Asked /\ Owed(request.id) /\ done[request.id] = Len(log)
        BY <1>t DEF AnswersOnce
      <3>2. \A i \in 1 .. Len(outbox) :
              outbox[i].kind = "response" => outbox[i].id # request.id
        BY <1>t DEF AnswersOnce
      <3>3. request.id \notin answered'
        BY <2>2, <2>3, <3>1, <3>2 DEF Owed
      <3>4. \A i \in 1 .. Len(outbox') :
              outbox'[i].kind = "response" => outbox'[i].id # request.id
        BY <2>1, <3>2
      <3> QED
        BY <3>1, <3>3, <3>4
    <2> QED
      BY <2>1, <2>4, <2>5, <2>6, <2>7 DEF AnswersOnce, Owed
  <1>2. CASE ~ServerTake
    <2>1. /\ answered' = answered
          /\ \A i \in 1 .. Len(outbox') :
               \/ i <= Len(outbox) /\ outbox'[i] = outbox[i]
               \/ i = Len(outbox') /\ Fresh(outbox'[i])
      BY <1>2, OutboxStep
    <2>2. \A r \in answered' : done'[r] # 0
      BY <1>t, <1>d, <2>1 DEF AnswersOnce
    <2>3. \A i \in 1 .. Len(outbox') : outbox'[i].kind = "response" =>
            \/ i \in 1 .. Len(outbox) /\ outbox'[i] = outbox[i]
            \/ i = Len(outbox') /\ pc = "reply" /\ outbox'[i].id = request.id
      BY <1>u, <2>1 DEF Fresh
    <2>4. \A i \in 1 .. Len(outbox') : outbox'[i].kind = "response" =>
            /\ outbox'[i].id \in Requests /\ done'[outbox'[i].id] # 0
            /\ outbox'[i].id \notin answered'
      <3>1. \A i \in 1 .. Len(outbox') : outbox'[i].kind = "response" => Owed(outbox'[i].id)
        BY <1>t, <2>3 DEF AnswersOnce
      <3> QED
        BY <1>d, <2>1, <3>1 DEF Owed
    <2>5. \A i, j \in 1 .. Len(outbox') :
            outbox'[i].kind = "response" /\ outbox'[j].kind = "response"
              /\ outbox'[i].id = outbox'[j].id => i = j
      BY <1>t, <2>3 DEF AnswersOnce
    <2>6. pc' = "reply" =>
            /\ request' \in Asked
            /\ request'.id \in Requests /\ done'[request'.id] # 0 /\ request'.id \notin answered'
            /\ done'[request'.id] = Len(log')
            /\ \A i \in 1 .. Len(outbox') :
                 outbox'[i].kind = "response" => outbox'[i].id # request'.id
      <3> SUFFICES ASSUME pc' = "reply"
                   PROVE  /\ request' \in Asked
                          /\ request'.id \in Requests /\ done'[request'.id] # 0
                          /\ request'.id \notin answered'
                          /\ done'[request'.id] = Len(log')
                          /\ \A i \in 1 .. Len(outbox') :
                               outbox'[i].kind = "response" => outbox'[i].id # request'.id
        OBVIOUS
      <3>1. CASE HandleMessage
        <4>1. /\ inbox # <<>> /\ request' = Head(inbox) /\ pc = "loop"
              /\ done' = [done EXCEPT ![Head(inbox).id] = Len(log')]
              /\ outbox' = outbox
          BY <3>1 DEF HandleMessage
        <4>2. Head(inbox) \in Asked /\ Head(inbox) = inbox[1] /\ Head(inbox).id \in Requests
          <5>1. Head(inbox) \in Asked /\ Head(inbox) = inbox[1]
            BY <1>t, <4>1
          <5> QED
            BY <5>1 DEF Asked
        <4>3. done[Head(inbox).id] = 0
          BY <1>t, <4>1, <4>2 DEF WaitsOnce
        <4>4. Len(log') # 0 /\ Len(log') \in Nat
          BY <1>t, LogGrows DEF Present
        <4> QED
          BY <1>t, <2>1, <4>1, <4>2, <4>3, <4>4 DEF AnswersOnce, Owed
      <3>2. CASE ~HandleMessage
        <4>1. pc = "reply" /\ request' = request /\ log' = log /\ done' = done
          BY <1>2, <3>2 DEF Next, Node, Connect, Subscribe, Announce, Reply, Report, Ask,
             CutLink, NoticeLoss, PowerCycle, vars, node
        <4>2. \A i \in 1 .. Len(outbox') : outbox'[i].kind = "response" =>
                i \in 1 .. Len(outbox) /\ outbox'[i] = outbox[i]
          BY <1>u, <2>1 DEF Fresh
        <4> QED
          BY <1>t, <2>1, <4>1, <4>2 DEF AnswersOnce, Owed
      <3> QED
        BY <3>1, <3>2
    <2> QED
      BY <2>2, <2>4, <2>5, <2>6 DEF AnswersOnce, Owed
  <1> QED
    BY <1>1, <1>2

\* An announcement that is sent tells the present state.
LEMMA AnnouncedNewest ==
  ASSUME IInv, NEW outcome \in Outcomes, Publish("attributes", "none", outcome),
         sock = "up", ~cut', "attributes" \notin refused', output' = output
  PROVE  Newest(output)'
  <1> DEFINE m == Status("attributes", "none")
  <1>1. m \in Messages /\ m.kind = "attributes" /\ m.value = output
    <2>1. m \in Messages
      BY StatusType DEF IInv
    <2> QED
      BY <2>1 DEF IInv, Present, Status
  <1>2. outbox \in Seq(Messages) /\ outbox' = Append(outbox, m)
    <2>1. outcome = "whole" /\ ~cut
      BY DEF Outcomes, Publish, Written
    <2> QED
      BY <2>1 DEF IInv, TypeOK, Messages, Publish, Arrives
  <1> HIDE DEF m
  <1>3. /\ Len(outbox') \in 1 .. Len(outbox') /\ outbox'[Len(outbox')] = m
        /\ \A j \in 1 .. Len(outbox') : j <= Len(outbox')
    BY <1>1, <1>2
  <1> QED
    BY <1>1, <1>3 DEF Newest, Announcements

\* An answer does not change what is announced.
LEMMA AnsweredNewest ==
  ASSUME IInv, Newest(output), output' = output, shown' = shown,
         outbox' = outbox \/ \E m \in Messages : m.kind = "response" /\ outbox' = Append(outbox, m)
  PROVE  Newest(output)'
  <1>1. CASE outbox' = outbox
    BY <1>1 DEF Newest, Announcements
  <1>2. ASSUME NEW m \in Messages, m.kind = "response", outbox' = Append(outbox, m)
        PROVE  Newest(output)'
    <2>1. outbox \in Seq(Messages)
      BY DEF IInv, TypeOK, Messages
    <2>2. Announcements' = Announcements /\ \A i \in Announcements : outbox'[i] = outbox[i]
      BY <1>2, <2>1 DEF Announcements
    <2> QED
      BY <2>2 DEF Newest
  <1> QED
    BY <1>1, <1>2

\* The dashboard shows the last announcement once the server has taken it.
LEMMA TakenNewest ==
  ASSUME IInv, ServerTake, Newest(output)
  PROVE  Newest(output)'
  <1>1. /\ outbox # <<>> /\ output' = output
        /\ \A i \in 1 .. Len(outbox') : i + 1 \in 1 .. Len(outbox) /\ outbox'[i] = outbox[i + 1]
    BY TakeStep
  <1>2. outbox \in Seq(Messages) /\ outbox' = Tail(outbox)
    BY DEF IInv, TypeOK, Messages, ServerTake
  <1>3. Announcements' = {i \in 1 .. Len(outbox) - 1 : outbox[i + 1].kind = "attributes"}
    BY <1>1, <1>2 DEF Announcements
  <1>4. CASE Announcements = {}
    <2>1. outbox[1].kind # "attributes"
      BY <1>1, <1>2, <1>4 DEF Announcements
    <2>2. shown' = shown
      BY <2>1, TakeStep
    <2>3. Announcements' = {}
      BY <1>2, <1>3, <1>4 DEF Announcements
    <2> QED
      BY <1>1, <1>4, <2>2, <2>3 DEF Newest
  <1>5. CASE Announcements # {}
    <2>1. PICK i \in Announcements :
            outbox[i].value = output /\ \A j \in Announcements : j <= i
      BY <1>5 DEF Newest
    <2>2. i \in 1 .. Len(outbox) /\ outbox[i].kind = "attributes"
      BY <2>1 DEF Announcements
    <2>3. CASE i = 1
      <3>1. Announcements' = {}
        BY <1>2, <1>3, <2>1, <2>3 DEF Announcements
      <3>2. shown'.value = output
        BY <2>1, <2>2, <2>3, TakeStep
      <3> QED
        BY <1>1, <3>1, <3>2 DEF Newest
    <2>4. CASE i # 1
      <3>1. i - 1 \in Announcements' /\ outbox'[i - 1].value = output
        BY <1>1, <1>2, <1>3, <2>1, <2>2, <2>4
      <3>2. \A j \in Announcements' : j <= i - 1
        BY <1>2, <1>3, <2>1, <2>2 DEF Announcements
      <3> QED
        BY <1>1, <3>1, <3>2 DEF Newest
    <2> QED
      BY <2>3, <2>4
  <1> QED
    BY <1>4, <1>5

\* The announcement follows every connect, and the report every change.
LEMMA UpToDateStep == IInv /\ [Next]_vars => UpToDate'
  <1> SUFFICES ASSUME IInv, [Next]_vars, sock' = "up", ~cut', "attributes" \notin refused',
                      pc' = "loop" \/ (pc' = "reply" /\ request'.call.method = "get")
               PROVE  Newest(output)'
    BY DEF UpToDate
  <1>1. ASSUME NEW outcome \in Outcomes, Announce(outcome) PROVE Newest(output)'
    <2>1. Publish("attributes", "none", outcome) /\ sock = "up" /\ output' = output
      BY <1>1 DEF Announce
    <2> QED
      BY <2>1, AnnouncedNewest
  <1>2. ASSUME NEW outcome \in Outcomes, Report(outcome) PROVE Newest(output)'
    <2>1. Publish("attributes", "none", outcome) /\ sock = "up" /\ output' = output
      BY <1>2 DEF Report
    <2> QED
      BY <2>1, AnnouncedNewest
  <1>3. ASSUME NEW outcome \in Outcomes, Reply(outcome) PROVE Newest(output)'
    <2>1. /\ Publish("response", request.id, outcome) /\ sock = "up" /\ output' = output
          /\ shown' = shown /\ pc = "reply" /\ request.call.method = "get"
      BY <1>3 DEF Reply, server
    <2>6. ~cut /\ "attributes" \notin refused /\ outcome # "torn"
      BY <2>1 DEF Publish, Written
    <2>2. request.id \in Requests
      BY <2>1 DEF IInv, AnswersOnce, Owed
    <2>3. Status("response", request.id) \in Messages
      BY <2>2, StatusType DEF IInv
    <2>4. Status("response", request.id).kind = "response"
      BY DEF Status
    <2>5. Newest(output)
      BY <2>1, <2>6 DEF IInv, UpToDate
    <2> QED
      BY <2>1, <2>3, <2>4, <2>5, <2>6, AnsweredNewest DEF Publish
  <1>4. CASE HandleMessage
    <2>1. /\ pc = "loop" /\ sock = "up" /\ cut' = cut /\ refused' = refused
          /\ outbox' = outbox /\ shown' = shown
      BY <1>4 DEF HandleMessage, server
    <2>2. Head(inbox).call.method # "set"
      BY <1>4 DEF HandleMessage
    <2>3. output' = output
      BY <1>4, <2>2 DEF HandleMessage
    <2>4. Newest(output)
      BY <2>1 DEF IInv, UpToDate
    <2> QED
      BY <2>1, <2>3, <2>4, AnsweredNewest
  <1>5. CASE ServerTake
    <2>1. UNCHANGED <<pc, request, sock, cut, refused>>
      BY <1>5, TakeStep
    <2>2. Newest(output)
      BY <2>1 DEF IInv, UpToDate
    <2> QED
      BY <1>5, <2>2, TakenNewest
  <1>6. CASE UNCHANGED <<pc, request, sock, cut, refused, output, outbox, shown>>
    <2>1. Newest(output)
      BY <1>6 DEF IInv, UpToDate
    <2> QED
      BY <1>6, <2>1, AnsweredNewest
  <1> QED
    BY <1>1, <1>2, <1>3, <1>4, <1>5, <1>6
       DEF Next, Node, Connect, Subscribe, Ask, CutLink, NoticeLoss, PowerCycle,
           vars, node, network, server

-----------------------------------------------------------------------------
(* Theorems *)

LEMMA InvStep == IInv /\ [Next]_vars => IInv'
  BY TypeStep, PresentStep, WaitsStep, AnswersStep, ToldStep, OrderStep, UpToDateStep
     DEF IInv

\* The invariant holds of every behaviour of the node.
LEMMA Inductive == Spec => []IInv
  BY InvInit, InvStep, PTL DEF Spec

\* Every variable of the node, the link and the server keeps its type.
THEOREM TypeCorrect == Spec => []TypeOK
  <1>1. IInv => TypeOK
    BY DEF IInv
  <1> QED
    BY <1>1, Inductive, PTL

\* Every answer and every announcement tells the pins as they were, and an
\* answer tells them as its request left them.
THEOREM TellsTruly == Spec => []ToldTruly
  <1>1. IInv => ToldTruly
    BY DEF IInv
  <1> QED
    BY <1>1, Inductive, PTL

\* Between two calls on a connection that carries data, the newest announcement
\* tells the present state of the pins.
THEOREM StaysCurrent == Spec => []AttributesCurrent
  <1>1. IInv => AttributesCurrent
    BY DEF IInv, UpToDate, AttributesCurrent
  <1> QED
    BY <1>1, Inductive, PTL

-----------------------------------------------------------------------------
(* The refinement *)

LEMMA PromiseInit == Init => Promise!Init
  BY DEF Init, Promise!Init, AllLow, Promise!AllLow

\* Each step carries a request out, answers one, shows a newer state, restarts
\* the pins, or changes nothing the dashboard is promised.
LEMMA PromiseStep == IInv /\ [Next]_vars => [Promise!Next]_Promise!vars
  <1> SUFFICES ASSUME IInv, [Next]_vars PROVE [Promise!Next]_Promise!vars
    OBVIOUS
  <1>t. /\ Present /\ WaitsOnce /\ AnswersOnce /\ InOrder /\ ToldTruly
        /\ log \in Seq(States) /\ inbox \in Seq(Asked) /\ outbox \in Seq(Messages)
        /\ shown \in [value : States, at : Nat]
    BY DEF IInv, TypeOK, Messages
  <1>1. CASE HandleMessage
    <2> DEFINE r == Head(inbox).id
               call == Head(inbox).call
    <2>1. inbox # <<>> /\ answered' = answered /\ shown' = shown
      BY <1>1 DEF HandleMessage, server
    <2>2. Head(inbox) \in Asked /\ Head(inbox) = inbox[1] /\ 1 \in 1 .. Len(inbox)
      BY <1>t, <2>1
    <2>3. r \in Requests /\ done[r] = 0 /\ call \in Calls
      BY <1>t, <2>2 DEF WaitsOnce, Asked
    <2>4. CASE call.method = "noise"
      <3>1. log' = log /\ done' = done
        BY <1>1, <2>4 DEF HandleMessage
      <3> QED
        BY <2>1, <3>1 DEF Promise!vars
    <2>5. CASE call.method # "noise"
      <3>1. done' = [done EXCEPT ![r] = Len(log')]
        BY <1>1, <2>5 DEF HandleMessage
      <3>2. \/ log' = log
            \/ \E p \in Pins, on \in BOOLEAN :
                 log' = Append(log, [log[Len(log)] EXCEPT ![p] = on])
        <4>1. CASE call.method = "set"
          <5>1. call.pin \in Pins /\ call.enabled \in BOOLEAN
            BY <2>3, <4>1 DEF Calls
          <5>2. log' = Append(log, [output EXCEPT ![call.pin] = call.enabled])
            BY <1>1, <4>1 DEF HandleMessage
          <5> QED
            BY <1>t, <5>1, <5>2 DEF Present
        <4>2. CASE call.method # "set"
          BY <1>1, <4>2 DEF HandleMessage
        <4> QED
          BY <4>1, <4>2
      <3>3. Promise!CarryOut(r)
        BY <2>1, <2>3, <3>1, <3>2 DEF Promise!CarryOut
      <3> QED
        BY <2>3, <3>3 DEF Promise!Next
    <2> QED
      BY <2>4, <2>5
  <1>2. CASE ServerTake
    <2>1. outbox # <<>> /\ log' = log /\ done' = done /\ 1 \in 1 .. Len(outbox)
      BY <1>2, <1>t, TakeStep
    <2>2. CASE outbox[1].kind = "attributes" /\ answered' = answered
                 /\ shown'.at = outbox[1].at
      <3>1. shown.at <= outbox[1].at /\ outbox[1].at \in 1 .. Len(log)
        BY <1>t, <2>1, <2>2 DEF InOrder, ToldTruly
      <3>2. shown'.at \in shown.at .. Len(log) /\ shown'.at # 0
        BY <1>t, <2>2, <3>1
      <3>3. Promise!Show
        BY <2>1, <2>2, <3>2 DEF Promise!Show
      <3> QED
        BY <3>3 DEF Promise!Next
    <2>3. CASE outbox[1].kind = "response" /\ shown' = shown
                 /\ answered' = answered \cup {outbox[1].id}
      <3>1. Owed(outbox[1].id)
        BY <1>t, <2>1, <2>3 DEF AnswersOnce
      <3>2. Promise!Answer(outbox[1].id)
        BY <2>1, <2>3, <3>1 DEF Promise!Answer, Owed
      <3> QED
        BY <3>1, <3>2 DEF Promise!Next, Owed
    <2> QED
      BY <1>2, <2>2, <2>3, TakeStep
  <1>3. CASE PowerCycle
    <2>1. Promise!Restart
      BY <1>3 DEF PowerCycle, server, Promise!Restart, AllLow, Promise!AllLow
    <2> QED
      BY <2>1 DEF Promise!Next
  <1>4. CASE UNCHANGED <<log, done, answered, shown>>
    BY <1>4 DEF Promise!vars
  <1> QED
    BY <1>1, <1>2, <1>3, <1>4
       DEF Next, Node, Connect, Subscribe, Announce, Reply, Report, Ask, CutLink,
           NoticeLoss, vars, server

\* The node carries each request out at most once, answers it at most once and
\* never shows an older state of its pins than it has shown, whatever faults.
THEOREM KeepsPromise == Spec => ImplementsPins
  BY PromiseInit, PromiseStep, Inductive, PTL DEF Spec, Promise!Spec, ImplementsPins

=============================================================================
