----------------------------- MODULE MCTerminal -----------------------------
(* Constants for model-checking Terminal.                                  *)
EXTENDS Terminal, TLC

CONSTANTS left, right

OnePane == {left}
TwoPanes == {left, right}
=============================================================================
