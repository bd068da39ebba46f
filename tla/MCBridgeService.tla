-------------------------- MODULE MCBridgeService --------------------------
(* Constants for model-checking BridgeService.                             *)
EXTENDS BridgeService

CONSTANTS s1, s2

OneSession  == {s1}
TwoSessions == {s1, s2}

(* Constraint: no two lifecycle operations of a session have overlapped.   *)
(* `raced` never goes back to FALSE, so every state in which a property    *)
(* guarded by it says something is still reached.                          *)
Calm == \A s \in Sessions : ~raced[s]

=============================================================================
