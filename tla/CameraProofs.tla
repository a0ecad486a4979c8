---------------------------- MODULE CameraProofs ----------------------------
(***************************************************************************)
(* The camera node, for any number of browsers and pictures of any size:   *)
(* its types, and that a watched stream is not cut by the next viewer.     *)
(***************************************************************************)
EXTENDS CameraNode, TLAPS

\* While a request is handled the web server refers to its connection, closed or
\* not: what camCapture() takes over is never nobody's.
InService == handler # "none" => current # "nobody"

\* The connection that is being streamed to has got something before its first
\* frame.
Answered ==
  sketch = "ultrasound" /\ isStreaming = 1 /\ wclient # "gone" => first[wclient] # "nothing"

\* serverStream() is only left by clearing isStreaming or at its end.
Streaming == handler = "stream" => isStreaming = 1

IInv == TypeOK /\ InService /\ OneStreamAtATime /\ Answered /\ Streaming

\* The camera node boots with no request and no connection.
LEMMA InvInit == Init => IInv
  BY SizeAssumption DEF Init, IInv, InService, OneStreamAtATime, Answered, Streaming, TypeOK

\* A connection loses its last reference only when neither the web server nor
\* the sketch goes on using it.
LEMMA InvStep == IInv /\ [Next]_vars => IInv'
  <1> SUFFICES ASSUME IInv, [Next]_vars PROVE IInv'
    OBVIOUS
  <1> USE SizeAssumption, ViewersAssumption
      DEF IInv, InService, OneStreamAtATime, Answered, Streaming, StreamsFirst, TypeOK, URLs, web, Serve, Adopt, Closed, Served, Sent, Return
  <1>1. CASE RelaySensor
    BY <1>1 DEF RelaySensor
  <1>2. CASE NothingToServe
    BY <1>2 DEF NothingToServe
  <1>17. CASE Ultrasound
    BY <1>17 DEF Ultrasound
  <1>18. CASE StreamOn
    BY <1>18 DEF StreamOn, StreamsFirst
  <1>3. CASE Release
    BY <1>3 DEF Release
  <1>4. ASSUME NEW v \in Viewers, ServeOther(v) PROVE IInv'
    BY <1>4 DEF ServeOther
  <1>5. ASSUME NEW v \in Viewers, ServeCapture(v) PROVE IInv'
    BY <1>5 DEF ServeCapture
  <1>6. ASSUME NEW v \in Viewers, ServeStream(v) PROVE IInv'
    BY <1>6 DEF ServeStream
  <1>7. CASE BadPicture
    BY <1>7 DEF BadPicture
  <1>8. ASSUME NEW size \in 1 .. MaxLen, Picture(size) PROVE IInv'
    BY <1>8 DEF Picture
  <1>9. ASSUME NEW size \in 1 .. MaxLen, Frame(size) PROVE IInv'
    BY <1>9 DEF Frame
  <1>10. CASE SendPiece
    BY <1>10 DEF SendPiece, WillCopy
  <1>11. CASE SendingLost
    BY <1>11 DEF SendingLost
  <1>12. CASE SendingDone
    BY <1>12 DEF SendingDone
  <1>13. ASSUME NEW c \in {"on", "off"}, SendCommand(c) PROVE IInv'
    BY <1>13 DEF SendCommand
  <1>14. ASSUME NEW v \in Viewers, Leave(v) PROVE IInv'
    BY <1>14 DEF Leave
  <1>15. ASSUME NEW v \in Viewers, NEW url \in URLs, Ask(v, url) PROVE IInv'
    BY <1>15 DEF Ask
  <1>16. CASE UNCHANGED vars
    BY <1>16 DEF vars
  <1> QED
    BY <1>1, <1>2, <1>3, <1>4, <1>5, <1>6, <1>7, <1>8, <1>9, <1>10, <1>11, <1>12, <1>13, <1>14, <1>15, <1>16, <1>17, <1>18
       DEF Next, Loop

\* The invariant holds throughout.
LEMMA Inductive == Spec => []IInv
  BY InvInit, InvStep, PTL DEF Spec

\* No step uses a closed connection, and the unsigned length of what is left of
\* a picture does not wrap.
THEOREM TypeCorrect == Spec => []TypeOK
  <1>1. IInv => TypeOK
    BY DEF IInv
  <1> QED
    BY <1>1, Inductive, PTL

\* In the sketch that streams without the web server, every viewer gets a header
\* and then whole frames.
THEOREM OneStream == Spec => []OneStreamAtATime
  <1>1. IInv => OneStreamAtATime
    BY DEF IInv
  <1> QED
    BY <1>1, Inductive, PTL

\* Only its own departure or a request for a single picture ends the stream of
\* the viewer that is watching.
THEOREM StreamIsKept == Spec => StreamKept
  <1> DEFINE Kept == \A v \in Viewers :
               wclient = v /\ isStreaming = 1 /\ handler # "capture" /\ ~Leave(v)
                 => wclient' = v
  <1>1. IInv /\ [Next]_vars => [Kept]_vars
    <2> SUFFICES ASSUME IInv, [Next]_vars, NEW v \in Viewers,
                        wclient = v, isStreaming = 1, handler # "capture", ~Leave(v)
                 PROVE wclient' = v
      OBVIOUS
    <2>1. ASSUME NEW u \in Viewers, Leave(u) PROVE wclient' = v
      <3>1. u # v
        BY <2>1
      <3> QED
        BY <2>1, <3>1 DEF Leave
    <2>2. ASSUME NEW u \in Viewers, ServeStream(u) PROVE wclient' = v
      BY <2>2 DEF ServeStream
    <2>3. CASE BadPicture
      BY <2>3 DEF BadPicture
    <2>4. ASSUME NEW size \in 1 .. MaxLen, Picture(size) PROVE wclient' = v
      BY <2>4 DEF Picture
    <2>5. CASE UNCHANGED wclient
      BY <2>5
    <2> QED
      BY <2>1, <2>2, <2>3, <2>4, <2>5
         DEF Next, Loop, vars, RelaySensor, Ultrasound, StreamOn, NothingToServe, Release, ServeOther,
             ServeCapture, Frame, SendPiece, SendingLost, SendingDone, SendCommand, Ask
  <1> QED
    BY <1>1, Inductive, PTL DEF Spec, StreamKept

=============================================================================
