----------------------------- MODULE RemotePins -----------------------------
(***************************************************************************)
(* What the GPIO node promises its dashboard: each request is carried out  *)
(* at most once, an answer is given at most once and tells the pins as the *)
(* request left them, and what the dashboard shows never goes back to an   *)
(* older state of the pins than it has shown before.                       *)
(***************************************************************************)
EXTENDS Integers, Sequences

CONSTANTS
  Pins,      \* the pins that can be set
  Requests   \* the identifiers of requests

VARIABLES
  log,       \* the states the pins have been in, the present one last
  done,      \* where in the log each request carried out left the pins, or 0
  answered,  \* the requests answered
  shown      \* the place in the log the dashboard shows, 0 for none

vars == <<log, done, answered, shown>>

AllLow == [p \in Pins |-> FALSE]

Init ==
  /\ log = <<AllLow>>
  /\ done = [r \in Requests |-> 0]
  /\ answered = {}
  /\ shown = 0

CarryOut(r) ==
  /\ done[r] = 0
  /\ \/ log' = log
     \/ \E p \in Pins, on \in BOOLEAN :
          log' = Append(log, [log[Len(log)] EXCEPT ![p] = on])
  /\ done' = [done EXCEPT ![r] = Len(log')]
  /\ UNCHANGED <<answered, shown>>

Answer(r) ==
  /\ done[r] # 0 /\ r \notin answered
  /\ answered' = answered \cup {r}
  /\ UNCHANGED <<log, done, shown>>

Show ==
  /\ shown' \in shown .. Len(log) /\ shown' # 0
  /\ UNCHANGED <<log, done, answered>>

\* A restart leaves all pins low.
Restart ==
  /\ log' = Append(log, AllLow)
  /\ UNCHANGED <<done, answered, shown>>

Next == (\E r \in Requests : CarryOut(r) \/ Answer(r)) \/ Show \/ Restart

Spec == Init /\ [][Next]_vars
=============================================================================
