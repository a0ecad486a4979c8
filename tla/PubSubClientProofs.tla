------------------------- MODULE PubSubClientProofs -------------------------
(***************************************************************************)
(* What holds of the MQTT session for every keep-alive interval, timeout,  *)
(* application and packet mix: its types, the agreement of both ends on    *)
(* what an open socket means, and the two time bounds of loop().           *)
(*                                                                         *)
(* The time bounds are not inductive.  IInv relates the history variables  *)
(* to the client's own timers: the true silence never exceeds the age of   *)
(* the timer that stands for it, and the age of a timer is bounded by      *)
(* where in the round the client is.                                       *)
(***************************************************************************)
EXTENDS PubSubClient, SequenceTheorems, TLAPS

\* A closed socket leaves nothing of the connection behind.
ClosedInv ==
  sock = "down" => rx = <<>> /\ pong = 0 /\ quiet = 0 /\ deaf = 0

\* During connect() the packet waiting is the broker's verdict.
ConnackInv ==
  pc \in {"connack", "verdict"} =>
    /\ nextMsgId # 0 /\ pong = 0
    /\ rx # <<>> => (session = "accepted" <=> Head(rx) = "accept")

\* The age of lastInActivity and of lastOutActivity.
AgeIn  == Elapsed(now, lastIn)
AgeOut == Elapsed(now, lastOut)

\* The timer of each direction is at least as old as its silence.  A PINGREQ
\* renews lastInActivity although nothing came in: while it is outstanding the
\* true silence may be longer by what had gone by when it was sent.
Credit == IF pingOutstanding = 1 THEN KeepAlive + Round ELSE 0

ConnackTiming ==
  sock = "up" /\ pc = "connack" =>
    /\ quiet <= AgeOut /\ deaf <= AgeIn
    /\ AgeOut = AgeIn /\ AgeIn <= SocketTimeout

VerdictTiming ==
  sock = "up" /\ pc = "verdict" =>
    /\ gap <= LoopMax
    /\ quiet <= AgeOut /\ deaf <= AgeIn
    /\ AgeOut = AgeIn /\ AgeIn <= SocketTimeout + gap

IdleTiming ==
  sock = "up" /\ pc = "idle" =>
    /\ gap <= LoopGap
    /\ quiet <= AgeOut /\ AgeOut <= KeepAlive + LoopMax + gap
    /\ deaf <= AgeIn + Credit /\ AgeIn <= KeepAlive + LoopMax + gap

LoopTiming ==
  sock = "up" /\ pc \in {"reading", "callback"} =>
    /\ gap <= LoopMax
    /\ Elapsed(now, t) = gap
    /\ quiet <= AgeOut /\ AgeOut <= KeepAlive + gap
    /\ deaf <= AgeIn + Credit /\ AgeIn <= KeepAlive + gap

IInv ==
  /\ TypeOK /\ ClosedInv /\ ConnackInv /\ SessionAgrees
  /\ ConnackTiming /\ VerdictTiming /\ IdleTiming /\ LoopTiming

-----------------------------------------------------------------------------
(* Types *)

\* A client object that has just been constructed has its types.
LEMMA TypeInit == Init => TypeOK
  BY TimeAssumption, SizeAssumption DEF Init, TypeOK, Clock, States, Messages

\* Every step of the client, the application, the link and the broker keeps
\* every variable of the session in its type.
LEMMA TypeStep == TypeOK /\ [Next]_vars => TypeOK'
  <1> SUFFICES ASSUME TypeOK, [Next]_vars PROVE TypeOK'
    OBVIOUS
  <1> USE TimeAssumption, SizeAssumption
      DEF TypeOK, Clock, States, Packets, Received, Messages, client, call, broker
  <1>1. CASE CallDead
    BY <1>1 DEF CallDead, NoticedLoss
  <1>2. CASE ConnectFailed
    BY <1>2 DEF ConnectFailed
  <1>3. CASE ConnectOpen
    BY <1>3 DEF ConnectOpen, NoticedLoss
  <1>4. CASE ConnectTimeout
    BY <1>4 DEF ConnectTimeout, Stop, Return, Expired
  <1>5. CASE ConnectAccepted
    BY <1>5 DEF ConnectAccepted, Return
  <1>6. CASE ConnectRefused
    BY <1>6 DEF ConnectRefused, Stop, Return
  <1>7. CASE ConnectGivenUp
    BY <1>7 DEF ConnectGivenUp, Stop, Return
  <1>8. CASE ConnectRead
    BY <1>8 DEF ConnectRead
  <1>9. CASE LoopTimeout
    BY <1>9 DEF LoopTimeout, Stop, Return
  <1>10. CASE LoopEnter
    BY <1>10 DEF LoopEnter, Return
  <1>11. CASE ReadByte
    BY <1>11 DEF ReadByte
  <1>12. CASE ReadTimeout
    <2>1. rx' \in Seq(Packets)
      <3>1. CASE rx = <<>>
        BY <1>12, <3>1 DEF ReadTimeout
      <3>2. CASE rx # <<>>
        <4>1. Tail(rx) \in Seq(Packets) /\ <<"junk">> \in Seq(Packets)
          BY <3>2
        <4>2. <<"junk">> \o Tail(rx) \in Seq(Packets)
          BY <4>1, ConcatProperties
        <4> QED
          BY <1>12, <3>2, <4>1, <4>2 DEF ReadTimeout
      <3> QED
        BY <3>1, <3>2
    <2> QED
      BY <1>12, <2>1 DEF ReadTimeout, Return, Expired
  <1>13. ASSUME NEW kind \in Received, ReadPacket(kind) PROVE TypeOK'
    <2>1. rx' \in Seq(Packets)
      BY <1>13 DEF ReadPacket
    <2>2. lastIn' \in Clock /\ deaf' \in Nat /\ pingOutstanding' \in {0, 1} /\ quiet' \in Nat
      BY <1>13 DEF ReadPacket, StillOutstanding
    <2>3. /\ pc' \in {"idle", "callback"} /\ packet' \in Messages
          /\ t' \in Clock /\ since' \in Clock /\ gap' \in Nat
      BY <1>13 DEF ReadPacket, Return
    <2> QED
      BY <1>13, <2>1, <2>2, <2>3 DEF ReadPacket
  <1>14. CASE CallbackReturn
    BY <1>14 DEF CallbackReturn, Return
  <1>15. CASE Publish
    BY <1>15 DEF Publish, Write
  <1>16. CASE Subscribe
    BY <1>16 DEF Subscribe, Write, NextId
  <1>17. CASE Disconnect
    BY <1>17 DEF Disconnect, Stop
  <1>18. CASE Tick
    BY <1>18 DEF Tick, Advance, Longer
  <1>19. CASE LinkDown
    BY <1>19 DEF LinkDown, Stop
  <1>20. CASE Hang
    BY <1>20 DEF Hang
  <1>21. ASSUME NEW answer \in {"accept", "refuse", "short"}, BrokerConnack(answer) PROVE TypeOK'
    BY <1>21 DEF BrokerConnack
  <1>22. ASSUME NEW kind \in Messages, BrokerSend(kind) PROVE TypeOK'
    BY <1>22 DEF BrokerSend
  <1>23. CASE BrokerPong
    BY <1>23 DEF BrokerPong
  <1>24. CASE UNCHANGED vars
    BY <1>24 DEF vars
  <1> QED
    BY <1>1, <1>2, <1>3, <1>4, <1>5, <1>6, <1>7, <1>8, <1>9, <1>10, <1>11, <1>12,
       <1>13, <1>14, <1>15, <1>16, <1>17, <1>18, <1>19, <1>20, <1>21, <1>22, <1>23, <1>24
       DEF Next, Library, ConnectAnswered, Application, Environment

\* The session keeps its types whatever the clock, the broker, the link and the
\* application do; in particular no packet identifier leaves its range.
THEOREM TypeCorrect == Spec => []TypeOK
  BY TypeInit, TypeStep, PTL DEF Spec

-----------------------------------------------------------------------------
(* What an open socket means *)

SessionInv == ClosedInv /\ ConnackInv /\ SessionAgrees

\* There is no open socket at the start.
LEMMA SessionInit == Init => SessionInv
  BY DEF Init, SessionInv, ClosedInv, ConnackInv, SessionAgrees

\* No step leaves an open socket behind whose CONNECT was not accepted.
LEMMA SessionStep == TypeOK /\ SessionInv /\ [Next]_vars => SessionInv'
  <1> SUFFICES ASSUME TypeOK, SessionInv, [Next]_vars PROVE SessionInv'
    OBVIOUS
  <1> USE SizeAssumption
      DEF SessionInv, ClosedInv, ConnackInv, SessionAgrees, TypeOK, client, call, broker
  <1>1. CASE CallDead
    BY <1>1 DEF CallDead, NoticedLoss
  <1>2. CASE ConnectFailed
    BY <1>2 DEF ConnectFailed
  <1>3. CASE ConnectOpen
    BY <1>3 DEF ConnectOpen, NoticedLoss
  <1>4. CASE ConnectTimeout
    BY <1>4 DEF ConnectTimeout, Stop, Return
  <1>5. CASE ConnectAccepted
    BY <1>5 DEF ConnectAccepted, Return
  <1>6. CASE ConnectRefused
    BY <1>6 DEF ConnectRefused, Stop, Return
  <1>7. CASE ConnectGivenUp
    BY <1>7 DEF ConnectGivenUp, Stop, Return
  <1>8. CASE ConnectRead
    BY <1>8 DEF ConnectRead
  <1>9. CASE LoopTimeout
    BY <1>9 DEF LoopTimeout, Stop, Return
  <1>10. CASE LoopEnter
    BY <1>10 DEF LoopEnter, Return
  <1>11. CASE ReadByte
    BY <1>11 DEF ReadByte
  <1>12. CASE ReadTimeout
    BY <1>12 DEF ReadTimeout, Return
  <1>13. ASSUME NEW kind \in Received, ReadPacket(kind) PROVE SessionInv'
    BY <1>13 DEF ReadPacket, Return, StillOutstanding
  <1>14. CASE CallbackReturn
    BY <1>14 DEF CallbackReturn, Return
  <1>15. CASE Publish
    BY <1>15 DEF Publish, Write
  <1>16. CASE Subscribe
    BY <1>16 DEF Subscribe, Write, NextId
  <1>17. CASE Disconnect
    BY <1>17 DEF Disconnect, Stop
  <1>18. CASE Tick
    BY <1>18 DEF Tick
  <1>19. CASE LinkDown
    BY <1>19 DEF LinkDown, Stop
  <1>20. CASE Hang
    BY <1>20 DEF Hang
  <1>21. ASSUME NEW answer \in {"accept", "refuse", "short"}, BrokerConnack(answer) PROVE SessionInv'
    BY <1>21 DEF BrokerConnack
  <1>22. ASSUME NEW kind \in Messages, BrokerSend(kind) PROVE SessionInv'
    BY <1>22 DEF BrokerSend
  <1>23. CASE BrokerPong
    BY <1>23 DEF BrokerPong
  <1>24. CASE UNCHANGED vars
    BY <1>24 DEF vars
  <1> QED
    BY <1>1, <1>2, <1>3, <1>4, <1>5, <1>6, <1>7, <1>8, <1>9, <1>10, <1>11, <1>12,
       <1>13, <1>14, <1>15, <1>16, <1>17, <1>18, <1>19, <1>20, <1>21, <1>22, <1>23, <1>24
       DEF Next, Library, ConnectAnswered, Application, Environment

\* Whatever the broker answers and whenever the link drops, connected() may
\* trust the TCP socket.
THEOREM SessionAgreement == Spec => []SessionAgrees
  <1>1. Init => TypeOK /\ SessionInv
    BY TypeInit, SessionInit
  <1>2. (TypeOK /\ SessionInv) /\ [Next]_vars => (TypeOK /\ SessionInv)'
    BY TypeStep, SessionStep
  <1>3. SessionInv => SessionAgrees
    BY DEF SessionInv
  <1> QED
    BY <1>1, <1>2, <1>3, PTL DEF Spec

-----------------------------------------------------------------------------
(* The clock *)

\* A timer that has just been set has no age.
LEMMA ElapsedSelf == \A a \in Clock : Elapsed(a, a) = 0
  BY TimeAssumption DEF Clock, Elapsed

\* The age of a timer is a number of ticks, across the wrap as well.
LEMMA ElapsedType == \A a, b \in Clock : Elapsed(a, b) \in Nat
  BY TimeAssumption DEF Clock, Elapsed

\* The age of a timer grows by one with the clock, across the wrap as well,
\* as long as it is short of a whole turn of the counter.
LEMMA ElapsedAdvance ==
  \A a, b \in Clock :
    Elapsed(a, b) + 1 < TimeMod => Elapsed(Advance(a), b) = Elapsed(a, b) + 1
  BY TimeAssumption DEF Clock, Elapsed, Advance

-----------------------------------------------------------------------------
(* How old a silence can get *)

TimingInv == ConnackTiming /\ VerdictTiming /\ IdleTiming /\ LoopTiming

\* There is no open socket, hence no silence to bound, at the start.
LEMMA TimingInit == Init => TimingInv
  BY DEF Init, TimingInv, ConnackTiming, VerdictTiming, IdleTiming, LoopTiming

\* No step lets a silence outgrow the timer that stands for it, nor a timer
\* outlast the round of the application it is in.
LEMMA TimingStep ==
  TypeOK /\ ClosedInv /\ TimingInv /\ [Next]_vars => TimingInv'
  <1> SUFFICES ASSUME TypeOK, ClosedInv, TimingInv, [Next]_vars PROVE TimingInv'
    OBVIOUS
  <1>a. /\ now \in Clock /\ lastIn \in Clock /\ lastOut \in Clock /\ t \in Clock
        /\ quiet \in Nat /\ deaf \in Nat /\ gap \in Nat
        /\ pingOutstanding \in {0, 1} /\ sock \in {"up", "down"}
        /\ pc \in {"idle", "connack", "verdict", "reading", "callback"}
    BY DEF TypeOK
  <1>b. /\ Elapsed(now, now) = 0 /\ AgeIn \in Nat /\ AgeOut \in Nat
        /\ Elapsed(now, t) \in Nat
    BY <1>a, ElapsedSelf, ElapsedType DEF AgeIn, AgeOut
  <1> USE <1>a, <1>b, TimeAssumption
      DEF TimingInv, ConnackTiming, VerdictTiming, IdleTiming, LoopTiming, ClosedInv, AgeIn, AgeOut,
          Credit, Round, client, call, broker
  <1>1. CASE CallDead
    BY <1>1 DEF CallDead, NoticedLoss
  <1>2. CASE ConnectFailed
    BY <1>2 DEF ConnectFailed
  <1>3. CASE ConnectOpen
    BY <1>3 DEF ConnectOpen, NoticedLoss
  <1>4. CASE ConnectTimeout
    BY <1>4 DEF ConnectTimeout, Stop, Return
  <1>5. CASE ConnectAccepted
    BY <1>5 DEF ConnectAccepted, Return
  <1>6. CASE ConnectRefused
    BY <1>6 DEF ConnectRefused, Stop, Return
  <1>7. CASE ConnectGivenUp
    BY <1>7 DEF ConnectGivenUp, Stop, Return
  <1>8. CASE ConnectRead
    BY <1>8 DEF ConnectRead
  <1>9. CASE LoopTimeout
    BY <1>9 DEF LoopTimeout, Stop, Return
  <1>10. CASE LoopEnter
    BY <1>10 DEF LoopEnter, Return, PingDue
  <1>11. CASE ReadByte
    BY <1>11 DEF ReadByte
  <1>12. CASE ReadTimeout
    BY <1>12 DEF ReadTimeout, Return
  <1>13. ASSUME NEW kind \in Received, ReadPacket(kind) PROVE TimingInv'
    <2>1. /\ sock = "up" /\ pc = "reading"
          /\ UNCHANGED <<now, sock, lastOut>> /\ quiet' \in {0, quiet}
      BY <1>13 DEF ReadPacket
    <2>2. \/ lastIn' = t /\ deaf' = 0
          \/ UNCHANGED <<lastIn, deaf, pingOutstanding>>
      BY <1>13 DEF ReadPacket, StillOutstanding
    <2>3. pingOutstanding' \in {0, 1}
      BY <1>13 DEF ReadPacket, StillOutstanding
    <2>4. \/ pc' = "callback" /\ UNCHANGED <<t, gap>>
          \/ pc' = "idle" /\ gap' = 0
      BY <1>13 DEF ReadPacket, Return
    <2> QED BY <2>1, <2>2, <2>3, <2>4
  <1>14. CASE CallbackReturn
    BY <1>14 DEF CallbackReturn, Return
  <1>15. CASE Publish
    BY <1>15 DEF Publish, Write
  <1>16. CASE Subscribe
    BY <1>16 DEF Subscribe, Write
  <1>17. CASE Disconnect
    BY <1>17 DEF Disconnect, Stop
  <1>18. CASE Tick
    <2>1. CASE sock = "down"
      BY <1>18, <2>1 DEF Tick
    <2>2. CASE sock = "up"
      <3>1. now' = Advance(now) /\ UNCHANGED <<lastIn, lastOut, t, pingOutstanding, pc, sock>>
        BY <1>18 DEF Tick
      <3>2. /\ quiet' \in {quiet, quiet + 1} /\ deaf' \in {deaf, deaf + 1}
            /\ gap' = gap + 1
        BY <1>18, <2>2 DEF Tick, Longer
      <3>3. /\ AgeIn + 1 < TimeMod => AgeIn' = AgeIn + 1
            /\ AgeOut + 1 < TimeMod => AgeOut' = AgeOut + 1
            /\ Elapsed(now, t) + 1 < TimeMod =>
                 Elapsed(now', t') = Elapsed(now, t) + 1
        BY <3>1, ElapsedAdvance
      <3>4. CASE pc = "idle"
        <4>1. gap < LoopGap
          BY <1>18, <2>2, <3>4 DEF Tick
        <4> QED
          BY <2>2, <3>1, <3>2, <3>3, <3>4, <4>1
      <3>5. CASE pc = "connack"
        <4>1. AgeIn < SocketTimeout
          BY <1>18, <3>5 DEF Tick
        <4> QED
          BY <2>2, <3>1, <3>2, <3>3, <3>5, <4>1
      <3>7. CASE pc = "verdict"
        <4>1. gap < LoopMax
          BY <1>18, <2>2, <3>7 DEF Tick
        <4> QED
          BY <2>2, <3>1, <3>2, <3>3, <3>7, <4>1
      <3>6. CASE pc \in {"reading", "callback"}
        <4>1. gap < LoopMax
          BY <1>18, <2>2, <3>6 DEF Tick
        <4> QED
          BY <2>2, <3>1, <3>2, <3>3, <3>6, <4>1
      <3> QED
        BY <3>4, <3>5, <3>6, <3>7
    <2> QED
      BY <2>1, <2>2
  <1>19. CASE LinkDown
    BY <1>19 DEF LinkDown, Stop
  <1>20. CASE Hang
    BY <1>20 DEF Hang
  <1>21. ASSUME NEW answer \in {"accept", "refuse", "short"}, BrokerConnack(answer) PROVE TimingInv'
    BY <1>21 DEF BrokerConnack
  <1>22. ASSUME NEW kind \in Messages, BrokerSend(kind) PROVE TimingInv'
    BY <1>22 DEF BrokerSend
  <1>23. CASE BrokerPong
    BY <1>23 DEF BrokerPong
  <1>24. CASE UNCHANGED vars
    BY <1>24 DEF vars
  <1> QED
    BY <1>1, <1>2, <1>3, <1>4, <1>5, <1>6, <1>7, <1>8, <1>9, <1>10, <1>11, <1>12,
       <1>13, <1>14, <1>15, <1>16, <1>17, <1>18, <1>19, <1>20, <1>21, <1>22, <1>23, <1>24
       DEF Next, Library, ConnectAnswered, Application, Environment

\* The inductive invariant holds throughout.
LEMMA Inductive == Spec => []IInv
  <1>1. Init => IInv
    BY TypeInit, SessionInit, TimingInit DEF IInv, SessionInv, TimingInv
  <1>2. IInv /\ [Next]_vars => IInv'
    BY TypeStep, SessionStep, TimingStep DEF IInv, SessionInv, TimingInv
  <1> QED
    BY <1>1, <1>2, PTL DEF Spec

\* The types the arithmetic of the two theorems below needs.
LEMMA TimerTypes ==
  TypeOK => /\ AgeIn \in Nat /\ AgeOut \in Nat
            /\ quiet \in Nat /\ deaf \in Nat /\ gap \in Nat
            /\ pingOutstanding \in {0, 1} /\ sock \in {"up", "down"}
            /\ pc \in {"idle", "connack", "verdict", "reading", "callback"}
  BY ElapsedType DEF TypeOK, AgeIn, AgeOut

\* The keep-alive holds for every interval, packet mix and callback: the broker
\* of an open connection hears from the client in time.
THEOREM KeepAliveIsHeld == Spec => []KeepAliveHeld
  <1>1. IInv => KeepAliveHeld
    BY TimeAssumption, TimerTypes
       DEF IInv, ClosedInv, ConnackTiming, VerdictTiming, IdleTiming, LoopTiming, KeepAliveHeld, Round
  <1> QED
    BY <1>1, Inductive, PTL

\* A connection that has gone silent is closed in time even while the
\* application goes on publishing over it.
THEOREM HungPeerIsDropped == Spec => []HungPeerDropped
  <1>1. IInv => HungPeerDropped
    BY TimeAssumption, TimerTypes
       DEF IInv, ClosedInv, ConnackTiming, VerdictTiming, IdleTiming, LoopTiming, HungPeerDropped,
           Credit, Round
  <1> QED
    BY <1>1, Inductive, PTL
-----------------------------------------------------------------------------
(* Why a broker that answers is not given up *)

\* Outside connect(), on an open connection.
LoopUp == sock = "up" /\ pc \in {"idle", "reading", "callback"}

\* What waits to be read: MaxRx packets and one PINGRESP, which answers the ping
\* that is outstanding.
BacklogInv ==
  /\ sock = "up" /\ pc \in {"connack", "verdict"} => Len(rx) <= 1
  /\ LoopUp =>
       /\ \A i \in 1 .. Len(rx) : rx[i] # "junk"
       /\ \/ Len(rx) <= MaxRx
          \/ Len(rx) = MaxRx + 1 /\ \E i \in 1 .. Len(rx) : rx[i] = "pingresp"
       /\ \A i \in 1 .. Len(rx) : rx[i] = "pingresp" =>
            /\ pingOutstanding = 1 /\ pong = 0
            /\ \A j \in 1 .. Len(rx) : rx[j] = "pingresp" => i = j
       /\ pong > 0 => pingOutstanding = 1

\* readByte() has waited no longer than loop() has run.
SinceTiming == sock = "up" /\ pc = "reading" => Elapsed(now, since) <= gap

\* How old the timers are at most while the PINGRESP is at place i of the backlog:
\* each packet that is no longer in front of it has taken a round.
Slack(i) == (MaxRx + 1 - i) * Round
Due(i) ==
  AnswerMax + gap + Slack(i) +
    (IF pc = "idle" THEN LoopMax ELSE IF pc = "reading" THEN Round ELSE 0)

\* A ping the broker has not answered yet is as old as the broker allows.
PingUnanswered ==
  /\ pong > 0
  /\ AgeIn + pong <= AnswerMax + 1 /\ AgeOut + pong <= AnswerMax + 1
  /\ pc # "idle" => gap + pong <= AnswerMax + 1

\* One it has answered is as old as the backlog in front of the answer allows.
PingAnswered ==
  \E i \in 1 .. Len(rx) : rx[i] = "pingresp" /\ AgeIn <= Due(i) /\ AgeOut <= Due(i)

PingTiming ==
  LoopUp /\ peer = "alive" /\ pingOutstanding = 1 => PingUnanswered \/ PingAnswered

PingInv == BacklogInv /\ SinceTiming /\ PingTiming

\* What a queue is after its head was taken or a packet was put behind it.
LEMMA QueueFacts ==
  ASSUME NEW s \in Seq(Packets), NEW e \in Packets
  PROVE  /\ Len(s) \in Nat
         /\ s # <<>> => /\ Tail(s) \in Seq(Packets) /\ Len(Tail(s)) = Len(s) - 1
                        /\ Len(s) >= 1 /\ Head(s) = s[1]
                        /\ \A i \in 1 .. Len(Tail(s)) : Tail(s)[i] = s[i + 1]
         /\ Append(s, e) \in Seq(Packets) /\ Len(Append(s, e)) = Len(s) + 1
         /\ Append(s, e)[Len(s) + 1] = e
         /\ \A i \in 1 .. Len(s) : Append(s, e)[i] = s[i]
  BY SMT

\* One packet less in front of the answer is worth one round.
LEMMA SlackFacts ==
  /\ Round \in Nat
  /\ \A i \in 1 .. MaxRx + 1 : Slack(i) \in Nat
  /\ \A i \in 2 .. MaxRx + 1 : Slack(i - 1) = Slack(i) + Round
  /\ \A i \in 1 .. MaxRx + 1 : Slack(i) <= MaxRx * Round
<1>1. Round \in Nat /\ MaxRx \in Nat
  BY TimeAssumption, SizeAssumption DEF TimeAssumption, SizeAssumption, Round
<1>2. \A a, r \in Nat : a * r \in Nat /\ (a + 1) * r = a * r + r
  BY SMT
<1>3. \A a, b, r \in Nat : a <= b => a * r <= b * r
  BY SMT
<1>4. \A i \in 1 .. MaxRx + 1 : MaxRx + 1 - i \in Nat /\ MaxRx + 1 - i <= MaxRx
  BY <1>1, SMT
<1>5. \A i \in 1 .. MaxRx + 1 : Slack(i) \in Nat
  BY <1>1, <1>2, <1>4, Zenon DEF Slack
<1>6. \A i \in 1 .. MaxRx + 1 : Slack(i) <= MaxRx * Round
  BY <1>1, <1>3, <1>4, Zenon DEF Slack
<1>7. \A i \in 2 .. MaxRx + 1 : /\ i \in 1 .. MaxRx + 1
                                /\ MaxRx + 1 - (i - 1) = (MaxRx + 1 - i) + 1
  BY <1>1, SMT
<1>8. \A i \in 2 .. MaxRx + 1 : Slack(i - 1) = Slack(i) + Round
  <2>1. TAKE i \in 2 .. MaxRx + 1
  <2>2. ((MaxRx + 1 - i) + 1) * Round = (MaxRx + 1 - i) * Round + Round
    BY <1>1, <1>2, <1>4, <1>7, Zenon
  <2> QED BY <2>2, <1>7, Zenon DEF Slack
<1> QED BY <1>1, <1>5, <1>6, <1>8

\* readByte() is never reached by its timeout while packets arrive whole enough.
LEMMA SinceStep ==
  ASSUME TypeOK, TimingInv, SinceTiming, [Next]_vars PROVE SinceTiming'
  <1>a. /\ now \in Clock /\ since \in Clock /\ gap \in Nat
        /\ sock \in {"up", "down"}
        /\ pc \in {"idle", "connack", "verdict", "reading", "callback"}
    BY DEF TypeOK
  <1>b. Elapsed(now, now) = 0 /\ Elapsed(now, since) \in Nat
    BY <1>a, ElapsedSelf, ElapsedType
  <1> USE <1>a, <1>b, TimeAssumption DEF SinceTiming, client, call, broker
  <1>1. CASE CallDead \/ ConnectFailed \/ Publish \/ Subscribe \/ Disconnect
    BY <1>1 DEF CallDead, ConnectFailed, Publish, Subscribe, Disconnect, Stop
  <1>2. CASE ConnectOpen \/ ConnectTimeout \/ ConnectRead \/ ConnectAnswered
    BY <1>2 DEF ConnectOpen, ConnectTimeout, ConnectRead, ConnectAnswered, ConnectAccepted,
                ConnectRefused, ConnectGivenUp, Stop, Return
  <1>3. CASE LoopTimeout \/ LoopEnter
    BY <1>3 DEF LoopTimeout, LoopEnter, Stop, Return
  <1>4. CASE ReadByte \/ ReadTimeout
    BY <1>4 DEF ReadByte, ReadTimeout, Return
  <1>5. ASSUME NEW kind \in Received, ReadPacket(kind) PROVE SinceTiming'
    BY <1>5 DEF ReadPacket, Return
  <1>6. CASE CallbackReturn
    BY <1>6 DEF CallbackReturn, Return
  <1>7. CASE Tick
    <2>1. now' = Advance(now) /\ UNCHANGED <<since, pc, sock>>
      BY <1>7 DEF Tick
    <2>2. SUFFICES ASSUME sock = "up", pc = "reading" PROVE Elapsed(now', since) <= gap'
      BY <2>1
    <2>3. gap' = gap + 1 /\ Elapsed(now, since) <= gap
      BY <1>7, <2>2 DEF Tick
    <2>4. gap <= LoopMax
      BY <2>2 DEF TimingInv, LoopTiming
    <2>5. Elapsed(now, since) + 1 < TimeMod
      BY <2>3, <2>4
    <2> QED BY <2>1, <2>3, <2>5, ElapsedAdvance
  <1>8. CASE LinkDown \/ Hang \/ BrokerPong
    BY <1>8 DEF LinkDown, Hang, BrokerPong, Stop
  <1>9. ASSUME NEW answer \in {"accept", "refuse", "short"}, BrokerConnack(answer) PROVE SinceTiming'
    BY <1>9 DEF BrokerConnack
  <1>10. ASSUME NEW kind \in Messages, BrokerSend(kind) PROVE SinceTiming'
    BY <1>10 DEF BrokerSend
  <1>11. CASE UNCHANGED vars
    BY <1>11 DEF vars
  <1> QED
    BY <1>1, <1>2, <1>3, <1>4, <1>5, <1>6, <1>7, <1>8, <1>9, <1>10, <1>11
       DEF Next, Library, Application, Environment

LEMMA NoReadTimeout ==
  ASSUME TypeOK, TimingInv, SinceTiming, AnswersReadInTime, ReadTimeout
  PROVE  sock = "down"
<1>1. SUFFICES ASSUME sock = "up" PROVE FALSE
  BY DEF TypeOK
<1>2. pc = "reading" /\ Elapsed(now, since) >= SocketTimeout
  BY DEF ReadTimeout, Expired
<1>3. Elapsed(now, since) <= gap /\ gap <= LoopMax
  BY <1>1, <1>2 DEF SinceTiming, TimingInv, LoopTiming
<1>4. gap \in Nat /\ Elapsed(now, since) \in Nat
  BY ElapsedType DEF TypeOK
<1> QED BY <1>2, <1>3, <1>4, TimeAssumption DEF AnswersReadInTime

\* The backlog holds MaxRx packets and the answer to the outstanding ping, and
\* reading that answer settles the ping.
LEMMA BacklogStep ==
  ASSUME TypeOK, ClosedInv, ConnackInv, TimingInv, SinceTiming, BacklogInv, AnswersReadInTime,
         [Next]_vars
  PROVE  BacklogInv'
  <1>a. /\ rx \in Seq(Packets) /\ Len(rx) \in Nat /\ pong \in 0 .. AnswerMax + 1
        /\ AnswerMax \in Nat /\ MaxRx \in Nat
        /\ pingOutstanding \in {0, 1} /\ sock \in {"up", "down"}
        /\ pc \in {"idle", "connack", "verdict", "reading", "callback"}
    BY TimeAssumption, SizeAssumption DEF TypeOK, TimeAssumption, SizeAssumption
  <1> USE <1>a DEF client, call, broker
  <1>1. CASE CallDead \/ ConnectFailed \/ Publish \/ Subscribe \/ Disconnect
    BY <1>1 DEF CallDead, ConnectFailed, Publish, Subscribe, Disconnect, Stop, BacklogInv, LoopUp
  <1>2. CASE ConnectOpen \/ ConnectTimeout \/ ConnectRead \/ ConnectRefused \/ ConnectGivenUp
    BY <1>2 DEF ConnectOpen, ConnectTimeout, ConnectRead,
                ConnectRefused, ConnectGivenUp, Stop, Return, BacklogInv, LoopUp
  <1>3. CASE ConnectAccepted
    <2>1. /\ pc = "verdict" /\ rx # <<>> /\ rx' = Tail(rx) /\ pc' = "idle" /\ pong' = pong
          /\ sock' = sock
      BY <1>3 DEF ConnectAccepted, Return
    <2>2. CASE sock = "down"
      BY <2>1, <2>2 DEF BacklogInv, LoopUp
    <2>3. CASE sock = "up"
      <3>1. Len(rx) <= 1 /\ pong = 0
        BY <2>1, <2>3 DEF BacklogInv, ConnackInv
      <3>2. Len(Tail(rx)) = Len(rx) - 1 /\ Len(rx) >= 1
        BY <2>1, QueueFacts
      <3>5. \A n \in Nat : n <= 1 /\ n >= 1 => n - 1 = 0
        BY SMT
      <3>3. Len(Tail(rx)) = 0
        BY <1>a, <3>1, <3>2, <3>5, Zenon
      <3>4. Len(rx') = 0 /\ 1 .. Len(rx') = {} /\ Len(rx') <= MaxRx /\ ~(pong' > 0)
        BY <3>1, <3>3, <2>1
      <3> QED BY <2>1, <3>4 DEF BacklogInv, LoopUp
    <2> QED BY <2>2, <2>3
  <1>4. CASE LoopTimeout
    BY <1>4 DEF LoopTimeout, Stop, Return, BacklogInv, LoopUp
  <1>5. CASE LoopEnter
    <2>1. sock = "up" /\ pc = "idle" /\ UNCHANGED <<rx, sock>> /\ pc' \in {"idle", "reading"}
      BY <1>5 DEF LoopEnter, Return
    <2>2. CASE UNCHANGED <<pingOutstanding, pong>>
      BY <2>1, <2>2 DEF BacklogInv, LoopUp
    <2>3. CASE pingOutstanding = 0 /\ pingOutstanding' = 1
      BY <2>1, <2>3 DEF BacklogInv, LoopUp
    <2> QED BY <1>5, <2>2, <2>3 DEF LoopEnter
  <1>6. CASE ReadByte
    BY <1>6 DEF ReadByte, BacklogInv, LoopUp
  <1>7. CASE ReadTimeout
    <2>1. sock = "down" /\ sock' = sock
      BY <1>7, NoReadTimeout DEF ReadTimeout
    <2> QED BY <2>1 DEF BacklogInv, LoopUp
  <1>8. ASSUME NEW kind \in Received, ReadPacket(kind) PROVE BacklogInv'
    <2>1. /\ sock = "up" /\ sock' = "up" /\ pc = "reading" /\ pc' \in {"idle", "callback"}
          /\ rx # <<>> /\ rx' = Tail(rx) /\ pong' = pong
          /\ Head(rx) \in {kind, "junk"}
          /\ pingOutstanding' = IF kind = "pingresp" THEN 0 ELSE pingOutstanding
      BY <1>8 DEF ReadPacket, Return, StillOutstanding
    <2>2. /\ Len(rx') = Len(rx) - 1 /\ Len(rx) >= 1 /\ Head(rx) = rx[1]
          /\ \A i \in 1 .. Len(rx') : rx'[i] = rx[i + 1] /\ i + 1 \in 1 .. Len(rx) /\ i + 1 # 1
      BY <2>1, QueueFacts
    <2>3. /\ LoopUp /\ 1 \in 1 .. Len(rx)
      BY <2>1, <2>2 DEF LoopUp
    <2>4. rx[1] = kind
      BY <2>1, <2>2, <2>3 DEF BacklogInv
    <2>5. CASE kind = "pingresp"
      <3>1. pong = 0 /\ \A j \in 1 .. Len(rx) : rx[j] = "pingresp" => 1 = j
        BY <2>3, <2>4, <2>5 DEF BacklogInv
      <3>2. \A i \in 1 .. Len(rx') : rx'[i] # "pingresp"
        BY <2>2, <3>1
      <3>3. Len(rx') <= MaxRx
        BY <2>2, <2>3 DEF BacklogInv
      <3>4. \A i \in 1 .. Len(rx') : rx'[i] # "junk"
        BY <2>2, <2>3 DEF BacklogInv
      <3>5. ~(pong' > 0)
        BY <2>1, <3>1
      <3> QED BY <2>1, <3>2, <3>3, <3>4, <3>5 DEF BacklogInv, LoopUp
    <2>6. CASE kind # "pingresp"
      <3>1. Len(rx') <= MaxRx
        BY <2>2, <2>3 DEF BacklogInv
      <3>2. \A i \in 1 .. Len(rx') : rx'[i] # "junk"
        BY <2>2, <2>3 DEF BacklogInv
      <3>3. \A i \in 1 .. Len(rx') : rx'[i] = "pingresp" =>
              /\ pingOutstanding = 1 /\ pong = 0
              /\ \A j \in 1 .. Len(rx') : rx'[j] = "pingresp" => i + 1 = j + 1
        BY <2>2, <2>3 DEF BacklogInv
      <3>4. \A i, j \in 1 .. Len(rx') : i + 1 = j + 1 => i = j
        BY <2>2
      <3>5. pong > 0 => pingOutstanding = 1
        BY <2>3 DEF BacklogInv
      <3> QED BY <2>1, <2>2, <2>6, <3>1, <3>2, <3>3, <3>4, <3>5 DEF BacklogInv, LoopUp
    <2> QED BY <2>5, <2>6
  <1>9. CASE CallbackReturn
    BY <1>9 DEF CallbackReturn, Return, BacklogInv, LoopUp
  <1>10. CASE Tick
    BY <1>10 DEF Tick, BacklogInv, LoopUp
  <1>11. CASE LinkDown \/ Hang
    BY <1>11 DEF LinkDown, Hang, Stop, BacklogInv, LoopUp
  <1>12. CASE BrokerPong
    <2>1. /\ pong > 0 /\ pong' = 0 /\ rx' = Append(rx, "pingresp")
          /\ UNCHANGED <<pc, sock, pingOutstanding>>
      BY <1>12 DEF BrokerPong
    <2>2. /\ Len(rx') = Len(rx) + 1 /\ rx'[Len(rx) + 1] = "pingresp"
          /\ \A i \in 1 .. Len(rx) : rx'[i] = rx[i]
      BY <2>1, QueueFacts DEF Packets, Received
    <2>3. sock = "up" /\ pc \in {"idle", "reading", "callback"} /\ LoopUp
      BY <2>1 DEF ClosedInv, ConnackInv, LoopUp
    <2>4. \A i \in 1 .. Len(rx) : rx[i] # "pingresp" /\ rx[i] # "junk"
      BY <2>1, <2>3 DEF BacklogInv
    <2>5. Len(rx) <= MaxRx /\ pingOutstanding = 1
      BY <2>1, <2>3, <2>4 DEF BacklogInv
    <2>6. \A i \in 1 .. Len(rx') : i \in 1 .. Len(rx) \/ i = Len(rx) + 1
      BY <2>2
    <2>7. Len(rx) + 1 \in 1 .. Len(rx') /\ Len(rx') <= MaxRx + 1
      BY <2>2, <2>5
    <2>8. \A i \in 1 .. Len(rx') : rx'[i] # "junk" /\ (rx'[i] = "pingresp" => i = Len(rx) + 1)
      BY <2>2, <2>4, <2>6
    <2>9. Len(rx') <= MaxRx \/ Len(rx') = MaxRx + 1
      BY <2>2, <2>7
    <2> QED BY <2>1, <2>2, <2>3, <2>5, <2>7, <2>8, <2>9 DEF BacklogInv, LoopUp
  <1>13. ASSUME NEW answer \in {"accept", "refuse", "short"}, BrokerConnack(answer) PROVE BacklogInv'
    BY <1>13 DEF BrokerConnack, BacklogInv, LoopUp
  <1>14. ASSUME NEW kind \in Messages, BrokerSend(kind) PROVE BacklogInv'
    <2>1. /\ Len(rx) < MaxRx /\ rx' = Append(rx, kind) /\ pc \notin {"connack", "verdict"}
          /\ sock = "up" /\ UNCHANGED <<pc, sock, pingOutstanding, pong>>
      BY <1>14 DEF BrokerSend
    <2>2. kind \in Packets /\ kind # "pingresp" /\ kind # "junk"
      BY DEF Packets, Received, Messages
    <2>3. /\ Len(rx') = Len(rx) + 1 /\ rx'[Len(rx) + 1] = kind
          /\ \A i \in 1 .. Len(rx) : rx'[i] = rx[i]
      BY <2>1, <2>2, QueueFacts
    <2>4. LoopUp /\ Len(rx') <= MaxRx
      BY <2>1, <2>3 DEF LoopUp
    <2>5. \A i \in 1 .. Len(rx') : i \in 1 .. Len(rx) \/ i = Len(rx) + 1
      BY <2>3
    <2>6. \A i \in 1 .. Len(rx') : rx'[i] # "junk"
      BY <2>2, <2>3, <2>4, <2>5 DEF BacklogInv
    <2>7. \A i \in 1 .. Len(rx') : rx'[i] = "pingresp" => i \in 1 .. Len(rx) /\ rx[i] = "pingresp"
      BY <2>2, <2>3, <2>5
    <2>8. \A i \in 1 .. Len(rx) : rx[i] = "pingresp" =>
            /\ pingOutstanding = 1 /\ pong = 0
            /\ \A j \in 1 .. Len(rx) : rx[j] = "pingresp" => i = j
      BY <2>4 DEF BacklogInv
    <2>9. pong > 0 => pingOutstanding = 1
      BY <2>4 DEF BacklogInv
    <2>10. \A i \in 1 .. Len(rx') : rx'[i] = "pingresp" =>
             /\ pingOutstanding' = 1 /\ pong' = 0
             /\ \A j \in 1 .. Len(rx') : rx'[j] = "pingresp" => i = j
      BY <2>1, <2>7, <2>8
    <2> QED BY <2>1, <2>4, <2>6, <2>9, <2>10 DEF BacklogInv, LoopUp
  <1>15. CASE UNCHANGED vars
    BY <1>15 DEF vars, BacklogInv, LoopUp
  <1> QED
    BY <1>1, <1>2, <1>3, <1>4, <1>5, <1>6, <1>7, <1>8, <1>9, <1>10, <1>11, <1>12, <1>13, <1>14, <1>15
       DEF Next, Library, ConnectAnswered, Application, Environment

\* While the answer to a ping waits in the backlog, it is at one of the first
\* MaxRx + 1 places, and its bound is a number of ticks.
LEMMA DueFacts ==
  ASSUME TypeOK, BacklogInv, LoopUp
  PROVE  \A i \in 1 .. Len(rx) : /\ i \in 1 .. MaxRx + 1 /\ Slack(i) \in Nat
                                 /\ Due(i) \in Nat /\ gap <= Due(i)
<1>1. Len(rx) \in Nat /\ MaxRx \in Nat /\ gap \in Nat /\ AnswerMax \in Nat /\ LoopMax \in Nat
  BY SizeAssumption, TimeAssumption DEF TypeOK
<1>2. Len(rx) <= MaxRx + 1
  BY <1>1 DEF BacklogInv
<1>3. \A i \in 1 .. Len(rx) : i \in 1 .. MaxRx + 1
  BY <1>1, <1>2
<1>4. \A s \in Nat : /\ AnswerMax + gap + s + (IF pc = "idle" THEN LoopMax ELSE IF pc = "reading" THEN Round ELSE 0) \in Nat
                     /\ gap <= AnswerMax + gap + s + (IF pc = "idle" THEN LoopMax ELSE IF pc = "reading" THEN Round ELSE 0)
  BY <1>1, SlackFacts
<1> QED BY <1>3, <1>4, SlackFacts, Zenon DEF Due

\* A step of loop() with nothing to read, or that begins to read.
LEMMA PingOverEntry ==
  ASSUME TypeOK, TimingInv, BacklogInv, PingTiming, LoopEnter PROVE PingTiming'
  <1>1. SUFFICES ASSUME peer' = "alive", pingOutstanding' = 1 PROVE PingUnanswered' \/ PingAnswered'
    BY DEF PingTiming
  <1>2. /\ now \in Clock /\ lastIn \in Clock /\ lastOut \in Clock /\ gap \in Nat
        /\ pong \in 0 .. AnswerMax + 1 /\ AnswerMax \in Nat /\ LoopMax \in Nat /\ LoopGap \in Nat
        /\ AgeIn \in Nat /\ AgeOut \in Nat /\ Elapsed(now, now) = 0
    BY TimeAssumption, TimerTypes, ElapsedSelf DEF TypeOK
  <1>3. /\ sock = "up" /\ pc = "idle" /\ UNCHANGED <<rx, now, peer>> /\ gap' = 0
        /\ pc' = "reading" \/ (pc' = "idle" /\ rx = <<>>)
    BY DEF LoopEnter, Return
  <1>4. CASE lastIn' = now /\ lastOut' = now /\ pong' = AnswerMax + 1
    <2>1. AgeIn' = 0 /\ AgeOut' = 0
      BY <1>2, <1>3, <1>4 DEF AgeIn, AgeOut
    <2> QED BY <1>2, <1>3, <1>4, <2>1 DEF PingUnanswered
  <1>5. CASE UNCHANGED <<lastIn, lastOut, pingOutstanding, pong>>
    <2>1. AgeIn' = AgeIn /\ AgeOut' = AgeOut /\ LoopUp
      BY <1>3, <1>5 DEF AgeIn, AgeOut, LoopUp
    <2>2. CASE PingUnanswered
      BY <1>2, <1>3, <1>5, <2>1, <2>2 DEF PingUnanswered
    <2>3. CASE PingAnswered
      <3>1. PICK i \in 1 .. Len(rx) : rx[i] = "pingresp" /\ AgeIn <= Due(i) /\ AgeOut <= Due(i)
        BY <2>3 DEF PingAnswered
      <3>2. rx # <<>>
        BY <3>1
      <3>3. pc' = "reading"
        BY <1>3, <3>2
      <3>4. Slack(i) \in Nat /\ Round = LoopGap + LoopMax
        BY <2>1, DueFacts DEF Round
      <3>5. gap <= LoopGap
        BY <1>3 DEF TimingInv, IdleTiming
      <3>6. Due(i)' = AnswerMax + Slack(i) + Round
        BY <1>2, <1>3, <3>3, <3>4 DEF Due, Slack
      <3>7. Due(i) = AnswerMax + gap + Slack(i) + LoopMax
        BY <1>3 DEF Due
      <3>8. AgeIn <= AnswerMax + Slack(i) + Round /\ AgeOut <= AnswerMax + Slack(i) + Round
        BY <1>2, <3>1, <3>4, <3>5, <3>7
      <3> QED BY <1>3, <2>1, <3>1, <3>6, <3>8 DEF PingAnswered
    <2> QED BY <1>1, <1>3, <1>5, <2>1, <2>2, <2>3 DEF PingTiming
  <1>6. pingOutstanding = 0 => pingOutstanding' = 1
    BY <1>1 DEF TypeOK
  <1> QED BY <1>1, <1>3, <1>4, <1>5 DEF LoopEnter

\* A packet that is read is no longer in front of the answer.
LEMMA PingOverRead ==
  ASSUME NEW kind \in Received, TypeOK, TimingInv, BacklogInv, PingTiming, ReadPacket(kind)
  PROVE  PingTiming'
  <1>1. SUFFICES ASSUME peer' = "alive", pingOutstanding' = 1 PROVE PingUnanswered' \/ PingAnswered'
    BY DEF PingTiming
  <1>2. /\ rx \in Seq(Packets) /\ Len(rx) \in Nat /\ gap \in Nat
        /\ pong \in 0 .. AnswerMax + 1 /\ AnswerMax \in Nat /\ LoopMax \in Nat /\ LoopGap \in Nat
        /\ AgeIn \in Nat /\ AgeOut \in Nat
    BY TimeAssumption, TimerTypes DEF TypeOK
  <1>3. /\ sock = "up" /\ pc = "reading" /\ rx # <<>> /\ rx' = Tail(rx)
        /\ Head(rx) \in {kind, "junk"} /\ kind # "pingresp" /\ pingOutstanding = 1
        /\ UNCHANGED <<now, lastOut, peer, pong>>
        /\ lastIn' = t \/ lastIn' = lastIn
    BY <1>1 DEF ReadPacket, StillOutstanding
  <1>4. (pc' = "callback" /\ gap' = gap) \/ (pc' = "idle" /\ gap' = 0)
    BY DEF ReadPacket, Return
  <1>5. LoopUp /\ Elapsed(now, t) = gap /\ gap <= LoopMax
    BY <1>3 DEF LoopUp, TimingInv, LoopTiming
  <1>6. AgeOut' = AgeOut /\ (AgeIn' = AgeIn \/ AgeIn' = gap)
    BY <1>3, <1>5 DEF AgeIn, AgeOut
  <1>7. CASE PingUnanswered
    <2>1. /\ pong > 0 /\ AgeIn + pong <= AnswerMax + 1 /\ AgeOut + pong <= AnswerMax + 1
          /\ gap + pong <= AnswerMax + 1
      BY <1>3, <1>7 DEF PingUnanswered
    <2>2. AgeIn' + pong <= AnswerMax + 1
      BY <1>6, <2>1
    <2>3. pc' # "idle" => gap' + pong <= AnswerMax + 1
      BY <1>4, <2>1
    <2> QED BY <1>3, <1>6, <2>1, <2>2, <2>3 DEF PingUnanswered
  <1>8. CASE PingAnswered
    <2>1. PICK i \in 1 .. Len(rx) : rx[i] = "pingresp" /\ AgeIn <= Due(i) /\ AgeOut <= Due(i)
      BY <1>8 DEF PingAnswered
    <2>2. /\ Len(rx') = Len(rx) - 1 /\ Len(rx) >= 1 /\ Head(rx) = rx[1]
          /\ \A j \in 1 .. Len(rx') : rx'[j] = rx[j + 1]
      BY <1>2, <1>3, QueueFacts
    <2>3. i # 1
      BY <1>3, <2>1, <2>2
    <2>4. /\ i - 1 \in 1 .. Len(rx') /\ (i - 1) + 1 = i /\ i \in 2 .. MaxRx + 1
          /\ i \in 1 .. MaxRx + 1
      <3>1. i \in 1 .. MaxRx + 1
        BY <1>5, DueFacts
      <3> QED BY <1>2, <2>2, <2>3, <3>1
    <2>5. rx'[i - 1] = "pingresp"
      BY <2>1, <2>2, <2>4
    <2>6. Slack(i) \in Nat /\ Slack(i - 1) = Slack(i) + Round /\ Round \in Nat
      BY <2>4, SlackFacts
    <2>7. Due(i) = AnswerMax + gap + Slack(i) + Round
      BY <1>3 DEF Due
    <2>8. CASE pc' = "callback" /\ gap' = gap
      <3>1. Due(i - 1)' = AnswerMax + gap + Slack(i - 1) + 0
        BY <2>8 DEF Due, Slack
      <3>2. /\ Due(i) <= AnswerMax + gap + Slack(i - 1) + 0
            /\ gap <= AnswerMax + gap + Slack(i - 1) + 0
        BY <1>2, <2>6, <2>7
      <3>3. Due(i) \in Nat /\ AnswerMax + gap + Slack(i - 1) + 0 \in Nat
        BY <1>2, <2>6, <2>7
      <3>4. AgeIn' <= Due(i - 1)' /\ AgeOut' <= Due(i - 1)'
        BY <1>2, <1>6, <2>1, <3>1, <3>2, <3>3
      <3> QED BY <2>4, <2>5, <3>4 DEF PingAnswered
    <2>9. CASE pc' = "idle" /\ gap' = 0
      <3>1. Due(i - 1)' = AnswerMax + 0 + Slack(i - 1) + LoopMax
        BY <2>9 DEF Due, Slack
      <3>2. /\ Due(i) <= AnswerMax + 0 + Slack(i - 1) + LoopMax
            /\ gap <= AnswerMax + 0 + Slack(i - 1) + LoopMax
        BY <1>2, <1>5, <2>6, <2>7
      <3>3. Due(i) \in Nat /\ AnswerMax + 0 + Slack(i - 1) + LoopMax \in Nat
        BY <1>2, <2>6, <2>7
      <3>4. AgeIn' <= Due(i - 1)' /\ AgeOut' <= Due(i - 1)'
        BY <1>2, <1>6, <2>1, <3>1, <3>2, <3>3
      <3> QED BY <2>4, <2>5, <3>4 DEF PingAnswered
    <2> QED BY <1>4, <2>8, <2>9
  <1> QED BY <1>1, <1>3, <1>5, <1>7, <1>8 DEF PingTiming

\* A callback that returns may move lastOutActivity back to where loop() began.
LEMMA PingOverCallback ==
  ASSUME TypeOK, TimingInv, BacklogInv, PingTiming, CallbackReturn PROVE PingTiming'
  <1>1. SUFFICES ASSUME LoopUp', peer' = "alive", pingOutstanding' = 1
                 PROVE  PingUnanswered' \/ PingAnswered'
    BY DEF PingTiming
  <1>2. /\ gap \in Nat /\ pong \in 0 .. AnswerMax + 1
        /\ AnswerMax \in Nat /\ LoopMax \in Nat /\ AgeIn \in Nat /\ AgeOut \in Nat
    BY TimeAssumption, TimerTypes DEF TypeOK
  <1>3. /\ sock = "up" /\ pc = "callback" /\ pc' = "idle" /\ gap' = 0
        /\ UNCHANGED <<now, lastIn, peer, pong, pingOutstanding, rx>>
        /\ lastOut' = t \/ lastOut' = lastOut
    BY <1>1 DEF CallbackReturn, Return, LoopUp, broker
  <1>4. LoopUp /\ Elapsed(now, t) = gap /\ gap <= LoopMax
    BY <1>3 DEF LoopUp, TimingInv, LoopTiming
  <1>5. AgeIn' = AgeIn /\ (AgeOut' = AgeOut \/ AgeOut' = gap)
    BY <1>3, <1>4 DEF AgeIn, AgeOut
  <1>6. CASE PingUnanswered
    <2>1. /\ pong > 0 /\ AgeIn + pong <= AnswerMax + 1 /\ AgeOut + pong <= AnswerMax + 1
          /\ gap + pong <= AnswerMax + 1
      BY <1>3, <1>6 DEF PingUnanswered
    <2>2. AgeOut' + pong <= AnswerMax + 1
      BY <1>5, <2>1
    <2> QED BY <1>3, <1>5, <2>1, <2>2 DEF PingUnanswered
  <1>7. CASE PingAnswered
    <2>1. PICK i \in 1 .. Len(rx) : rx[i] = "pingresp" /\ AgeIn <= Due(i) /\ AgeOut <= Due(i)
      BY <1>7 DEF PingAnswered
    <2>2. Slack(i) \in Nat
      BY <1>4, DueFacts
    <2>3. Due(i) = AnswerMax + gap + Slack(i) + 0 /\ Due(i)' = AnswerMax + 0 + Slack(i) + LoopMax
      BY <1>3 DEF Due, Slack
    <2>4. /\ AgeIn <= AnswerMax + 0 + Slack(i) + LoopMax
          /\ AgeOut <= AnswerMax + 0 + Slack(i) + LoopMax
          /\ gap <= AnswerMax + 0 + Slack(i) + LoopMax
      BY <1>2, <1>4, <2>1, <2>2, <2>3
    <2>5. AgeIn' <= Due(i)' /\ AgeOut' <= Due(i)'
      BY <1>5, <2>3, <2>4
    <2> QED BY <1>3, <2>1, <2>5 DEF PingAnswered
  <1> QED BY <1>1, <1>3, <1>4, <1>6, <1>7 DEF PingTiming

\* A tick of the clock brings a live broker's answer nearer, or its bound.
LEMMA PingOverTick ==
  ASSUME TypeOK, TimingInv, BacklogInv, PingTiming, Tick PROVE PingTiming'
  <1>1. SUFFICES ASSUME LoopUp', peer' = "alive", pingOutstanding' = 1
                 PROVE  PingUnanswered' \/ PingAnswered'
    BY DEF PingTiming
  <1>2. /\ now \in Clock /\ lastIn \in Clock /\ lastOut \in Clock /\ gap \in Nat
        /\ pong \in 0 .. AnswerMax + 1
        /\ AnswerMax \in Nat /\ LoopMax \in Nat /\ LoopGap \in Nat /\ AgeIn \in Nat /\ AgeOut \in Nat
    BY TimeAssumption, TimerTypes DEF TypeOK
  <1>3. /\ sock = "up" /\ pc \in {"idle", "reading", "callback"}
        /\ now' = Advance(now) /\ gap' = gap + 1 /\ pong # 1
        /\ pong' = IF pong > 1 THEN pong - 1 ELSE 0
        /\ UNCHANGED <<lastIn, lastOut, peer, pingOutstanding, rx, pc>>
    BY <1>1 DEF Tick, LoopUp, client, call
  <1>4. AgeIn + 1 < TimeMod /\ AgeOut + 1 < TimeMod
    BY <1>2, <1>3, TimeAssumption DEF TimingInv, IdleTiming, LoopTiming
  <1>5. AgeIn' = AgeIn + 1 /\ AgeOut' = AgeOut + 1
    BY <1>2, <1>3, <1>4, ElapsedAdvance DEF AgeIn, AgeOut
  <1>6. LoopUp
    BY <1>3 DEF LoopUp
  <1>7. CASE PingUnanswered
    BY <1>2, <1>3, <1>5, <1>7 DEF PingUnanswered
  <1>8. CASE PingAnswered
    <2>1. PICK i \in 1 .. Len(rx) : rx[i] = "pingresp" /\ AgeIn <= Due(i) /\ AgeOut <= Due(i)
      BY <1>8 DEF PingAnswered
    <2>2. Slack(i) \in Nat /\ Round \in Nat
      BY <1>6, DueFacts, SlackFacts
    <2> DEFINE Rest == IF pc = "idle" THEN LoopMax ELSE IF pc = "reading" THEN Round ELSE 0
    <2>5. Rest \in Nat
      BY <1>2, <2>2
    <2>6. Due(i)' = AnswerMax + (gap + 1) + Slack(i) + Rest /\ Due(i) = AnswerMax + gap + Slack(i) + Rest
      BY <1>3 DEF Due, Slack, Round
    <2>3. Due(i)' = Due(i) + 1 /\ Due(i) \in Nat
      <3> HIDE DEF Rest
      <3> QED BY <1>2, <2>2, <2>5, <2>6
    <2>4. AgeIn' <= Due(i)' /\ AgeOut' <= Due(i)'
      BY <1>2, <1>5, <2>1, <2>3
    <2> QED BY <1>3, <2>1, <2>4 DEF PingAnswered
  <1> QED BY <1>1, <1>3, <1>6, <1>7, <1>8 DEF PingTiming

\* The answer joins the backlog, at a place for which there is still time.
LEMMA PingOverAnswer ==
  ASSUME TypeOK, ClosedInv, ConnackInv, BacklogInv, BacklogInv', PingTiming, BrokerPong
  PROVE  PingTiming'
  <1>1. SUFFICES ASSUME LoopUp', peer' = "alive", pingOutstanding' = 1 PROVE PingAnswered'
    BY DEF PingTiming
  <1>2. /\ rx \in Seq(Packets) /\ Len(rx) \in Nat /\ gap \in Nat /\ pong \in 0 .. AnswerMax + 1
        /\ AnswerMax \in Nat /\ LoopMax \in Nat /\ LoopGap \in Nat /\ AgeIn \in Nat /\ AgeOut \in Nat
    BY TimeAssumption, TimerTypes DEF TypeOK
  <1>3. /\ pong > 0 /\ rx' = Append(rx, "pingresp")
        /\ UNCHANGED <<now, lastIn, lastOut, peer, pingOutstanding, pc, sock, gap>>
    BY DEF BrokerPong, client, call
  <1>4. /\ Len(rx') = Len(rx) + 1 /\ rx'[Len(rx) + 1] = "pingresp"
    BY <1>2, <1>3, QueueFacts DEF Packets, Received
  <1>5. LoopUp /\ AgeIn' = AgeIn /\ AgeOut' = AgeOut
    BY <1>1, <1>3 DEF LoopUp, AgeIn, AgeOut
  <1>6. ~PingAnswered
    BY <1>3, <1>5 DEF BacklogInv, PingAnswered
  <1>7. AgeIn <= AnswerMax /\ AgeOut <= AnswerMax
    <2>1. PingUnanswered
      BY <1>1, <1>3, <1>5, <1>6 DEF PingTiming
    <2> QED BY <1>2, <2>1 DEF PingUnanswered
  <1>8. PICK p \in Nat : p = Len(rx) + 1
    BY <1>2
  <1>9. p \in 1 .. Len(rx') /\ rx'[p] = "pingresp" /\ Slack(p) \in Nat /\ Round \in Nat
    <2>1. p \in 1 .. Len(rx') /\ rx'[p] = "pingresp"
      BY <1>2, <1>4, <1>8
    <2>2. Len(rx') <= MaxRx + 1 /\ MaxRx \in Nat
      BY <1>1, SizeAssumption DEF BacklogInv, TypeOK
    <2>3. p \in 1 .. MaxRx + 1
      BY <1>2, <1>4, <1>8, <2>2
    <2> QED BY <2>1, <2>3, SlackFacts
  <1>10. AnswerMax <= Due(p)' /\ Due(p)' \in Nat
    <2> DEFINE Rest == IF pc = "idle" THEN LoopMax ELSE IF pc = "reading" THEN Round ELSE 0
    <2>1. Rest \in Nat
      BY <1>2, <1>9
    <2>2. Due(p)' = AnswerMax + gap + Slack(p) + Rest
      BY <1>3 DEF Due, Slack, Round
    <2> HIDE DEF Rest
    <2> QED BY <1>2, <1>9, <2>1, <2>2
  <1>11. AgeIn' <= Due(p)' /\ AgeOut' <= Due(p)'
    BY <1>2, <1>5, <1>7, <1>10
  <1> QED BY <1>9, <1>11 DEF PingAnswered

\* No step lets a timer outgrow what the answer to the ping, still under way or
\* in the backlog, allows it.
LEMMA PingStep ==
  ASSUME IInv, PingInv, AnswersReadInTime, [Next]_vars PROVE PingInv'
  <1>a. TypeOK /\ ClosedInv /\ ConnackInv /\ TimingInv /\ BacklogInv /\ SinceTiming /\ PingTiming
    BY DEF IInv, PingInv, TimingInv
  <1>b. BacklogInv' /\ SinceTiming'
    BY <1>a, BacklogStep, SinceStep
  <1>c. PingTiming'
    <2>a. /\ pong \in 0 .. AnswerMax + 1 /\ gap \in Nat /\ sock \in {"up", "down"}
          /\ pingOutstanding \in {0, 1} /\ rx \in Seq(Packets)
          /\ pc \in {"idle", "connack", "verdict", "reading", "callback"}
      BY <1>a DEF TypeOK
    <2> USE <1>a, <2>a DEF client, call, broker
    <2>1. CASE CallDead \/ ConnectFailed \/ Disconnect
      BY <2>1 DEF CallDead, ConnectFailed, Disconnect, Stop, PingTiming, LoopUp
    <2>2. CASE ConnectOpen \/ ConnectTimeout \/ ConnectRead \/ ConnectAnswered
      BY <2>2 DEF ConnectOpen, ConnectTimeout, ConnectRead, ConnectAnswered, ConnectAccepted,
                  ConnectRefused, ConnectGivenUp, Stop, Return, PingTiming, LoopUp
    <2>3. CASE LoopTimeout
      BY <2>3 DEF LoopTimeout, Stop, PingTiming, LoopUp
    <2>4. CASE LoopEnter
      BY <2>4, PingOverEntry
    <2>5. CASE ReadByte
      BY <2>5 DEF ReadByte, PingTiming, LoopUp, PingUnanswered, PingAnswered, AgeIn, AgeOut, Due
    <2>6. CASE ReadTimeout
      <3>1. sock = "down" /\ sock' = sock
        BY <2>6, NoReadTimeout DEF ReadTimeout
      <3> QED BY <3>1 DEF PingTiming, LoopUp
    <2>7. ASSUME NEW kind \in Received, ReadPacket(kind) PROVE PingTiming'
      BY <2>7, PingOverRead
    <2>8. CASE CallbackReturn
      BY <2>8, PingOverCallback
    <2>9. CASE Publish \/ Subscribe
      <3>1. /\ pc \in {"idle", "callback"} /\ sock = "up" /\ lastOut' = now
            /\ UNCHANGED <<lastIn, now, pc, sock, rx, peer, pong, pingOutstanding, gap>>
        BY <2>9 DEF Publish, Subscribe, Write
      <3>2. AgeIn' = AgeIn /\ AgeOut' = 0 /\ LoopUp
        BY <3>1, ElapsedSelf DEF AgeIn, AgeOut, LoopUp, TypeOK
      <3>3. SUFFICES ASSUME peer = "alive", pingOutstanding = 1
                     PROVE  PingUnanswered' \/ PingAnswered'
        BY <3>1 DEF PingTiming
      <3>4. CASE PingUnanswered
        <4>1. AnswerMax \in Nat /\ AgeIn \in Nat
          BY TimeAssumption, TimerTypes
        <4> QED BY <3>1, <3>2, <3>4, <4>1 DEF PingUnanswered
      <3>5. CASE PingAnswered
        <4>1. PICK i \in 1 .. Len(rx) : rx[i] = "pingresp" /\ AgeIn <= Due(i)
          BY <3>5 DEF PingAnswered
        <4>2. Due(i)' = Due(i) /\ Due(i) \in Nat /\ 0 <= Due(i)
          <5>1. Due(i)' = Due(i)
            BY <3>1 DEF Due, Slack, Round
          <5>2. Due(i) \in Nat
            BY <3>2, DueFacts
          <5> QED BY <5>1, <5>2, SMT
        <4> QED BY <3>1, <3>2, <4>1, <4>2 DEF PingAnswered
      <3> QED BY <3>2, <3>3, <3>4, <3>5 DEF PingTiming
    <2>10. CASE Tick
      BY <2>10, PingOverTick
    <2>11. CASE LinkDown \/ Hang
      BY <2>11 DEF LinkDown, Hang, Stop, PingTiming, LoopUp
    <2>12. CASE BrokerPong
      BY <1>b, <2>12, PingOverAnswer
    <2>13. ASSUME NEW answer \in {"accept", "refuse", "short"}, BrokerConnack(answer) PROVE PingTiming'
      BY <2>13 DEF BrokerConnack, PingTiming, LoopUp
    <2>14. ASSUME NEW kind \in Messages, BrokerSend(kind) PROVE PingTiming'
      <3>1. /\ rx' = Append(rx, kind)
            /\ UNCHANGED <<lastIn, lastOut, now, pc, sock, peer, pong, pingOutstanding, gap>>
        BY <2>14 DEF BrokerSend
      <3>2. /\ Len(rx') = Len(rx) + 1 /\ Len(rx) \in Nat
            /\ \A i \in 1 .. Len(rx) : rx'[i] = rx[i]
        BY <3>1, QueueFacts DEF Packets, Received
      <3>3. \A i \in 1 .. Len(rx) : i \in 1 .. Len(rx')
        BY <3>2
      <3>4. PingUnanswered => PingUnanswered'
        BY <3>1 DEF PingUnanswered, AgeIn, AgeOut
      <3>5. PingAnswered => PingAnswered'
        BY <3>1, <3>2, <3>3 DEF PingAnswered, AgeIn, AgeOut, Due
      <3> QED BY <3>1, <3>4, <3>5 DEF PingTiming, LoopUp
    <2>15. CASE UNCHANGED vars
      BY <2>15 DEF vars, PingTiming, LoopUp, PingUnanswered, PingAnswered, AgeIn, AgeOut, Due
    <2> QED
      BY <2>1, <2>2, <2>3, <2>4, <2>5, <2>6, <2>7, <2>8, <2>9, <2>10, <2>11, <2>12, <2>13, <2>14, <2>15
         DEF Next, Library, Application, Environment
  <1> QED BY <1>b, <1>c DEF PingInv

\* While the ping is answered in time and the answer is read in time, loop() never
\* finds a timer that has run out.
LEMMA PingIsSettled ==
  ASSUME IInv, PingInv, AnswersReadInTime, pc = "idle", sock = "up", peer = "alive",
         pingOutstanding = 1
  PROVE  ~PingDue
<1>1. /\ TypeOK /\ BacklogInv /\ LoopUp
      /\ gap <= LoopGap
  BY DEF IInv, IdleTiming, PingInv, LoopUp
<1>2. /\ gap \in Nat /\ pong \in 0 .. AnswerMax + 1 /\ AnswerMax \in Nat
      /\ LoopMax \in Nat /\ LoopGap \in Nat /\ KeepAlive \in Nat /\ MaxRx \in Nat
      /\ AgeIn \in Nat /\ AgeOut \in Nat
  BY <1>1, TimeAssumption, SizeAssumption, TimerTypes DEF TypeOK
<1>3. /\ Round = LoopGap + LoopMax /\ Round \in Nat /\ MaxRx * Round \in Nat
      /\ (MaxRx + 1) * Round = MaxRx * Round + Round
  <2>1. \A a, r \in Nat : a * r \in Nat /\ (a + 1) * r = a * r + r
    BY SMT
  <2> QED BY <1>2, <2>1, SlackFacts DEF Round
<1>4. AnswerMax + MaxRx * Round + Round <= KeepAlive
  BY <1>2, <1>3 DEF AnswersReadInTime
<1>5. SUFFICES AgeIn <= KeepAlive /\ AgeOut <= KeepAlive
  BY <1>2 DEF PingDue, AgeIn, AgeOut
<1>6. CASE PingUnanswered
  BY <1>2, <1>3, <1>4, <1>6 DEF PingUnanswered
<1>7. CASE PingAnswered
  <2>1. PICK i \in 1 .. Len(rx) : AgeIn <= Due(i) /\ AgeOut <= Due(i)
    BY <1>7 DEF PingAnswered
  <2>2. Slack(i) \in Nat /\ Slack(i) <= MaxRx * Round
    BY <1>1, DueFacts, SlackFacts
  <2>3. Due(i) = AnswerMax + gap + Slack(i) + LoopMax
    BY DEF Due
  <2>4. AnswerMax + gap + Slack(i) + LoopMax <= KeepAlive
    BY <1>1, <1>2, <1>3, <1>4, <2>2
  <2> QED BY <1>2, <2>1, <2>2, <2>3, <2>4
<1> QED BY <1>1, <1>6, <1>7 DEF PingInv, PingTiming

\* A connection to a broker that answers is never given up as timed out, for
\* every interval and backlog that leave the PINGRESP its time.
THEOREM AnsweredIsKept == Spec => NoFalseTimeout
  <1>1. SUFFICES ASSUME AnswersReadInTime PROVE Spec => NoFalseTimeout
    <2>1. CASE ~AnswersReadInTime
      <3>1. (AnswersReadInTime /\ pc = "idle" /\ sock = "up" /\ peer = "alive" => state' # "TIMEOUT")
        BY <2>1
      <3> QED BY <3>1, PTL DEF NoFalseTimeout
    <2> QED BY <2>1
  <1>2. Init => PingInv
    BY DEF Init, PingInv, BacklogInv, SinceTiming, PingTiming, LoopUp
  <1>3. IInv /\ PingInv /\ [Next]_vars => PingInv'
    BY <1>1, PingStep
  <1>4. IInv /\ PingInv /\ [Next]_vars =>
          [AnswersReadInTime /\ pc = "idle" /\ sock = "up" /\ peer = "alive"
             => state' # "TIMEOUT"]_vars
    <2> SUFFICES ASSUME IInv, PingInv, Next, pc = "idle", sock = "up", peer = "alive"
                 PROVE  state' # "TIMEOUT"
      OBVIOUS
    <2>1. ~LoopTimeout
      BY <1>1, PingIsSettled DEF LoopTimeout
    <2>2. state = "CONNECTED"
      BY DEF IInv, SessionAgrees
    <2> QED
      BY <2>1, <2>2
         DEF Next, Library, ConnectAnswered, Application, Environment, client, call, broker,
             CallDead, ConnectFailed, ConnectOpen, ConnectTimeout, ConnectRead, ConnectAccepted,
             ConnectRefused, ConnectGivenUp, LoopEnter, ReadByte, ReadTimeout, ReadPacket,
             CallbackReturn, Publish, Subscribe, Disconnect, Tick, LinkDown, Hang,
             BrokerConnack, BrokerSend, BrokerPong
  <1> QED
    BY <1>2, <1>3, <1>4, Inductive, PTL DEF Spec, NoFalseTimeout

=============================================================================
