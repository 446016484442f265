----------------------------- MODULE MCChatTurn -----------------------------
(* Instances of ChatTurn for TLC.                                             *)
EXTENDS ChatTurn

CONSTANTS t1, t2, d1, d2

HomeOne == [t \in Turns |-> d1]

=============================================================================
