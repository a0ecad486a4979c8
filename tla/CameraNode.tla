----------------------------- MODULE CameraNode -----------------------------
(***************************************************************************)
(* The camera nodes: ArduCam_Relay_Activation.ino of the motion detector   *)
(* and its forerunner MQTT_ArduCam_Relay_Ultrasound.ino, which also        *)
(* measures a distance.  One thread in turn lets PubSubClient handle a     *)
(* relay command and ESP8266WebServer a request for a picture; the         *)
(* forerunner leaves the web server aside while it streams.  The sketch    *)
(* keeps a connection of its own, wclient, beside the one the web server   *)
(* is serving, and both may disappear while a picture is taken or sent.    *)
(*                                                                         *)
(* A connection is the viewer at its other end.  The web server is not     *)
(* part of the repository: it serves one connection at a time, and a       *)
(* connection closes when neither it nor the sketch refers to it.          *)
(***************************************************************************)
EXTENDS Integers

CONSTANTS
  Viewers,     \* the browsers
  BufferSize,  \* bufferSize, the most that is sent at once
  MaxLen       \* bound: the length of the largest picture that is sent

ASSUME SizeAssumption == BufferSize \in Nat \ {0} /\ MaxLen \in Nat \ {0}
ASSUME ViewersAssumption == Viewers \cap {"gone", "nobody"} = {}

VARIABLES
  \* the sketch
  sketch,       \* which of the two the node runs, "relay" or "ultrasound"
  isStreaming,
  wclient,      \* the connection pictures are sent on, "gone" if it is closed
  pc,           \* where loop() is
  handler,      \* the request being handled, "none" between requests
  len,          \* what is left of the picture being sent
  cs,           \* the level of the chip select pin of the camera
  pin,          \* the level of the relay pin
  \* the web server and the broker
  current,      \* server.client(); "gone" if it has left, "nobody" at rest
  command,      \* the relay command that has arrived and is not read yet
  \* the browsers
  viewer,       \* away, asking for a URL, or served
  first         \* the first thing each has received on its connection

web  == <<current, viewer, first>>
vars == <<sketch, isStreaming, wclient, pc, handler, len, cs, pin, command, web>>

URLs == {"capture", "stream", "other"}

Init ==
  /\ sketch \in {"relay", "ultrasound"}
  /\ isStreaming = 0 /\ wclient = "gone"
  /\ pc = (IF sketch = "relay" THEN "relay" ELSE "web")
  /\ handler = "none" /\ len = 0
  /\ cs = "HIGH" /\ pin = "LOW"
  /\ current = "nobody" /\ command = "none"
  /\ viewer = [v \in Viewers |-> "away"]
  /\ first = [v \in Viewers |-> "nothing"]

-----------------------------------------------------------------------------
\* What each browser has received first when `piece` is sent to `to`, which may
\* be gone.
Sent(to, piece) ==
  [v \in Viewers |-> IF v = to /\ first[v] = "nothing" THEN piece ELSE first[v]]

\* The connections in C are closed; state and got are those of the others.
Closed(C, state, got) ==
  /\ viewer' = [v \in Viewers |-> IF v \in C THEN "away" ELSE state[v]]
  /\ first' = [v \in Viewers |-> IF v \in C THEN "nothing" ELSE got[v]]

Served(v) == [viewer EXCEPT ![v] = "served"]

Return == pc' = "relay" /\ handler' = "none" /\ len' = 0

\* wclient = server.client(): the connection it held until now loses its last
\* reference.
Adopt(v, state, got) ==
  /\ wclient' = v
  /\ Closed({wclient} \ {v}, state, got)

-----------------------------------------------------------------------------
(* loop() *)

\* The web server waits while the one sketch streams.  (Faulty: it never does.)
StreamsFirstNever == FALSE
StreamsFirst == sketch = "ultrasound" /\ isStreaming = 1

\* Relay_sensor(): client.loop() reads at most one message and runs callback().
RelaySensor ==
  /\ pc = "relay" /\ pc' = IF sketch = "relay" THEN "web" ELSE "ultrasound"
  /\ pin' = CASE command = "on"  -> "HIGH"
              [] command = "off" -> "LOW"
              [] OTHER           -> pin
  /\ command' = "none"
  /\ UNCHANGED <<sketch, isStreaming, wclient, handler, len, cs, web>>

\* ultrasound(): unless it is too early, the pulse on the trigger pin, which is
\* the chip select pin of the camera, leaves it low.
Ultrasound ==
  /\ pc = "ultrasound" /\ pc' = "web"
  /\ cs' \in {cs, "LOW"}
  /\ UNCHANGED <<sketch, isStreaming, wclient, handler, len, pin, command, web>>

\* serverStream() called by loop(), up to the wait for the camera.
StreamOn ==
  /\ pc = "web" /\ StreamsFirst
  /\ pc' = "shooting" /\ handler' = "stream" /\ cs' = "HIGH"
  /\ UNCHANGED <<sketch, isStreaming, wclient, len, pin, command, web>>

\* ArduCam(): server.handleClient() finds nothing to serve, or the connection
\* it serves still open.
NothingToServe ==
  /\ pc = "web" /\ ~StreamsFirst /\ pc' = "relay"
  /\ current # "nobody" \/ \A v \in Viewers : viewer[v] \notin URLs
  /\ UNCHANGED <<sketch, isStreaming, wclient, handler, len, cs, pin, command, web>>

\* The web server lets go of a connection it has served.
Release ==
  /\ pc = "web" /\ ~StreamsFirst /\ pc' = "relay"
  /\ current # "nobody" /\ current' = "nobody"
  /\ Closed({current} \ {wclient}, viewer, first)
  /\ UNCHANGED <<sketch, isStreaming, wclient, handler, len, cs, pin, command>>

\* The web server takes up a request.
Serve(v, url) ==
  /\ pc = "web" /\ ~StreamsFirst /\ current = "nobody"
  /\ viewer[v] = url
  /\ current' = v

\* handleNotFound()
ServeOther(v) ==
  /\ Serve(v, "other")
  /\ Closed({}, Served(v), Sent(v, "head"))
  /\ Return
  /\ UNCHANGED <<sketch, isStreaming, wclient, cs, pin, command>>

\* serverCapture() up to the wait for the camera.  A command to the camera ends
\* with CS high.
ServeCapture(v) ==
  /\ Serve(v, "capture")
  /\ Closed({}, Served(v), first)
  /\ pc' = "shooting" /\ handler' = "capture" /\ cs' = "HIGH"
  /\ UNCHANGED <<sketch, isStreaming, wclient, len, pin, command>>

\* serverStream() up to the wait for the camera.  (Faulty: greeting every one.)
ServeStreamAnew(v) ==
  /\ Serve(v, "stream")
  /\ Adopt(v, Served(v), Sent(v, "head"))
  /\ isStreaming' = 1
  /\ pc' = "shooting" /\ handler' = "stream" /\ cs' = "HIGH"
  /\ UNCHANGED <<sketch, len, pin, command>>

ServeStream(v) ==
  /\ Serve(v, "stream")
  /\ IF isStreaming = 0
       THEN Adopt(v, Served(v), Sent(v, "head"))
       ELSE UNCHANGED wclient /\ Closed({}, Served(v), first)
  /\ isStreaming' = 1
  /\ pc' = "shooting" /\ handler' = "stream" /\ cs' = "HIGH"
  /\ UNCHANGED <<sketch, len, pin, command>>

-----------------------------------------------------------------------------
(* serverStream() and camCapture() once the camera is done *)

\* The picture is empty or too large.  camCapture() has taken the connection.
BadPicture ==
  /\ pc = "shooting"
  /\ IF handler = "capture"
       THEN Adopt(current, viewer, first)
       ELSE UNCHANGED <<wclient, viewer, first>>
  /\ Return
  /\ UNCHANGED <<sketch, isStreaming, cs, pin, current, command>>

\* camCapture() up to the first piece of the picture.
Picture(size) ==
  /\ pc = "shooting" /\ handler = "capture"
  /\ cs' = "LOW"
  /\ Adopt(current, viewer, Sent(current, "head"))
  /\ IF current = "gone"
       THEN Return
       ELSE pc' = "sending" /\ len' = size /\ UNCHANGED handler
  /\ UNCHANGED <<sketch, isStreaming, pin, current, command>>

\* serverStream() up to the first piece of the frame: its heading goes to the
\* connection being served.
Frame(size) ==
  /\ pc = "shooting" /\ handler = "stream"
  /\ cs' = "LOW"
  /\ IF wclient = "gone"
       THEN /\ isStreaming' = 0
            /\ Return
            /\ UNCHANGED first
       ELSE /\ pc' = "sending" /\ len' = size
            /\ first' = Sent(current, "part")
            /\ UNCHANGED <<isStreaming, handler>>
  /\ UNCHANGED <<sketch, wclient, pin, current, viewer, command>>

\* How much of the picture is sent next.  (Faulty: always a full buffer.)
WillCopyFull(left) == BufferSize
WillCopy(left) == IF left < BufferSize THEN left ELSE BufferSize

\* One round of the loop that sends the picture, on the sketch's connection.
SendPiece ==
  /\ pc = "sending" /\ len > 0 /\ wclient # "gone"
  /\ first' = Sent(wclient, "bytes")
  /\ len' = len - WillCopy(len)
  /\ UNCHANGED <<sketch, isStreaming, wclient, pc, handler, cs, pin, current, viewer, command>>

\* The connection is gone in the middle of the picture: the stream is over, and
\* CS stays low.  A single picture is given up.
SendingLost ==
  /\ pc = "sending" /\ len > 0 /\ wclient = "gone"
  /\ IF handler = "stream"
       THEN isStreaming' = 0 /\ UNCHANGED cs
       ELSE cs' = "HIGH" /\ UNCHANGED isStreaming
  /\ Return
  /\ UNCHANGED <<sketch, wclient, pin, command, web>>

\* The picture is sent, and the handler returns.  (Faulty: the loop around
\* serverStream that sends the next frame while somebody watches.)
SendingDoneForever ==
  /\ pc = "sending" /\ len = 0
  /\ cs' = "HIGH"
  /\ IF handler = "stream" /\ wclient # "gone"
       THEN pc' = "shooting" /\ UNCHANGED <<isStreaming, handler, len>>
       ELSE /\ isStreaming' = IF handler = "stream" THEN 0 ELSE isStreaming
            /\ Return
  /\ UNCHANGED <<sketch, wclient, pin, command, web>>

SendingDone ==
  /\ pc = "sending" /\ len = 0
  /\ cs' = "HIGH"
  /\ isStreaming' = IF handler = "stream" /\ wclient = "gone" THEN 0 ELSE isStreaming
  /\ Return
  /\ UNCHANGED <<sketch, wclient, pin, command, web>>

-----------------------------------------------------------------------------
(* The broker and the browsers *)

SendCommand(c) ==
  /\ command = "none" /\ command' = c
  /\ UNCHANGED <<sketch, isStreaming, wclient, pc, handler, len, cs, pin, web>>

Ask(v, url) ==
  /\ viewer[v] = "away"
  /\ viewer' = [viewer EXCEPT ![v] = url]
  /\ UNCHANGED <<sketch, isStreaming, wclient, pc, handler, len, cs, pin, command, current, first>>

Leave(v) ==
  /\ viewer[v] # "away"
  /\ viewer' = [viewer EXCEPT ![v] = "away"]
  /\ first' = [first EXCEPT ![v] = "nothing"]
  /\ wclient' = IF wclient = v THEN "gone" ELSE wclient
  /\ current' = IF current = v THEN "gone" ELSE current
  /\ UNCHANGED <<sketch, isStreaming, pc, handler, len, cs, pin, command>>

-----------------------------------------------------------------------------
Loop ==
  \/ RelaySensor \/ Ultrasound \/ StreamOn
  \/ NothingToServe \/ Release
  \/ \E v \in Viewers : ServeOther(v) \/ ServeCapture(v) \/ ServeStream(v)
  \/ BadPicture \/ \E size \in 1 .. MaxLen : Picture(size) \/ Frame(size)
  \/ SendPiece \/ SendingLost \/ SendingDone

Next ==
  \/ Loop
  \/ \E c \in {"on", "off"} : SendCommand(c)
  \/ \E v \in Viewers : Leave(v) \/ \E url \in URLs : Ask(v, url)

\* The sketch runs on, and the camera finishes every picture it has begun.
\* Nothing is assumed of the browsers.
Spec == Init /\ [][Next]_vars /\ WF_vars(Loop)

-----------------------------------------------------------------------------
(* Properties *)

\* In particular the unsigned length of the picture never drops below zero, and
\* no step uses a connection that has been closed.
TypeOK ==
  /\ isStreaming \in {0, 1} /\ len \in 0 .. MaxLen
  /\ sketch \in {"relay", "ultrasound"}
  /\ pc \in {"relay", "ultrasound", "web", "shooting", "sending"}
  /\ handler \in {"none", "capture", "stream"}
  /\ (pc \in {"shooting", "sending"}) <=> (handler # "none")
  /\ cs \in {"LOW", "HIGH"} /\ pin \in {"LOW", "HIGH"}
  /\ command \in {"none", "on", "off"}
  /\ viewer \in [Viewers -> URLs \cup {"away", "served"}]
  /\ first \in [Viewers -> {"nothing", "head", "part", "bytes"}]
  /\ wclient \in {"gone"} \cup {v \in Viewers : viewer[v] = "served"}
  /\ current \in {"gone", "nobody"} \cup {v \in Viewers : viewer[v] = "served"}

\* The relay does not wait for the browsers: a command that has arrived is
\* handled, however many of them ask for pictures and whatever they do while
\* these are taken and sent.
CommandsServed == command # "none" ~> command = "none"

\* Whoever watches keeps the connection pictures are sent on: another request
\* for the stream does not close it, only one for a single picture does.
StreamKept ==
  [][\A v \in Viewers :
       wclient = v /\ isStreaming = 1 /\ handler # "capture" /\ ~Leave(v)
         => wclient' = v]_vars

\* The sketch that serves nobody else while it streams gives every viewer whole
\* frames, after a header: the web server's connection is the sketch's own.
OneStreamAtATime ==
  sketch = "ultrasound" =>
    /\ \A v \in Viewers : first[v] # "part"
    /\ isStreaming = 1 => current = wclient

\* What the comment in serverStream() promises a new client: the header of the
\* response comes before its first frame.
NewClientGreeted == \A v \in Viewers : first[v] # "part"

=============================================================================
