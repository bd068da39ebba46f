---------------------------- MODULE MCQueryLoop ----------------------------
(* Constants for model-checking QueryLoop.                                 *)
EXTENDS QueryLoop, TLC

CONSTANTS p1, p2, w1, w2

TwoPrompts == {p1, p2}
OneWatcher == {w1}
TwoWatchers == {w1, w2}
=============================================================================
