------------------------- MODULE MCOutboundMessages -------------------------
(* Instances of OutboundMessages for TLC. *)
EXTENDS OutboundMessages, TLC

CONSTANTS s1, s2, p1, hello, image, caption

\* Two sends of the same text: the case in which an echo may match two rows.
SameText == [s \in Sends |-> hello]
SameEcho == [m \in Msgs |-> hello]

\* A text send s1, and a media send s2 without caption: send-media stores an
\* empty body, the echo carries "[image]".
MediaRow == [s \in Sends |-> IF s = s1 THEN hello ELSE caption]
MediaEcho == [m \in Msgs |-> IF m = s2 THEN image ELSE hello]
=============================================================================
