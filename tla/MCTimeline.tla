----------------------------- MODULE MCTimeline -----------------------------
(* Constants for model-checking Timeline.                                  *)
EXTENDS Timeline, TLC

CONSTANTS bash, mine, other, theirs

OneTool == {bash}
Spawning == bash :> [name |-> "Bash", valid |-> TRUE, background |-> TRUE]
TwoReturns == {[failed |-> FALSE, parsable |-> TRUE], [failed |-> TRUE, parsable |-> FALSE]}
OneOfMine == {mine}
TwoOfMine == {mine, other}
OneOfTheirs == {theirs}
=============================================================================
