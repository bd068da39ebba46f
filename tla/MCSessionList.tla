---------------------------- MODULE MCSessionList ----------------------------
(* Constants for model-checking SessionList.                               *)
EXTENDS SessionList, TLC

CONSTANTS chat, other, phone, opus, first, second

OneSession == {chat}
TwoSessions == {chat, other}
OnePhone == {phone}
OneModel == {opus}
TwoHandlers == {first, second}
SameHandlers == Permutations(TwoHandlers)
=============================================================================
