---------------------------- MODULE MCConnection ----------------------------
(* Constants for model-checking Connection.                                *)
EXTENDS Connection, TLC

CONSTANTS mac, other, read

TwoSlots == 1..2
ThreeSlots == 1..3
OneMac == {mac}
TwoMacs == {mac, other}
OneRead == {read}
=============================================================================
