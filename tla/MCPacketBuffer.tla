--------------------------- MODULE MCPacketBuffer ---------------------------
(* Small instances of PacketBuffer: a buffer of 16 bytes, digits below 8. *)
EXTENDS PacketBuffer

Filled(n) == [i \in 1 .. n |-> i]

\* A length of one digit; with QoS 1 the largest that fits, the end of which reads
\* as a message of its own; and one too large for the buffer, whose payload reads as
\* a length without an end.
MCMessages ==
  { [topic |-> <<5>>, payload |-> Filled(3), qos |-> 0, id |-> 0],
    [topic |-> <<6, 2>>, payload |-> <<3, 4, 0, 1, 5, 6, 7>>, qos |-> 1, id |-> 8],
    [topic |-> <<5>>, payload |-> [i \in 1 .. 16 |-> 9], qos |-> 0, id |-> 0] }

\* The longest payload publish() takes; one it refuses, with the longest topic
\* subscribe() takes; a topic that publish_P() puts past the end.
MCTexts == {[topic |-> <<1, 2, 3>>, payload |-> Filled(6)],
            [topic |-> Filled(7), payload |-> Filled(3)],
            [topic |-> Filled(12), payload |-> <<>>]}
=============================================================================
