------------------------------ MODULE FeedMail ------------------------------
(***************************************************************************)
(* What an Adafruit_MQTT client promises about the feeds it subscribes to: *)
(* of the messages published to a feed the application is given newer and  *)
(* newer ones.  It may miss some; it is never given one twice, nor an      *)
(* older one after a newer one.                                            *)
(***************************************************************************)
EXTENDS Naturals, Sequences

CONSTANT Feeds

VARIABLES
  sent,   \* sent[f]: how many messages were published to feed f
  given   \* given[f]: the numbers of those the application was given, in order

Init == sent = [f \in Feeds |-> 0] /\ given = [f \in Feeds |-> <<>>]

Publish(f) ==
  /\ sent' = [sent EXCEPT ![f] = @ + 1]
  /\ UNCHANGED given

Give(f) ==
  /\ \E n \in 1 .. sent[f] :
       /\ \A i \in DOMAIN given[f] : given[f][i] < n
       /\ given' = [given EXCEPT ![f] = Append(@, n)]
  /\ UNCHANGED sent

Next == \E f \in Feeds : Publish(f) \/ Give(f)

Spec == Init /\ [][Next]_<<sent, given>>
=============================================================================
