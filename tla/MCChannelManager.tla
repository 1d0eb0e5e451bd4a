-------------------------- MODULE MCChannelManager --------------------------
(* Instances of ChannelManager for TLC.                                      *)
EXTENDS ChannelManager, TLC

CONSTANTS c1, c2

OneChannel == [x \in Messages |-> c1]
\* The first message is cut in two.
FirstInTwo == [x \in Messages |-> IF x = 1 THEN 2 ELSE 1]
=============================================================================
