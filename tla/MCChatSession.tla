--------------------------- MODULE MCChatSession ---------------------------
(* An instance of ChatSession for TLC: the names of its model values.      *)
EXTENDS ChatSession, TLC

CONSTANTS c1, c2, s1, s2, s3, m1, o1
=============================================================================
