--------------------------- MODULE MCOAuthRefresh ---------------------------
(* Constants for model-checking OAuthRefresh.                              *)
EXTENDS OAuthRefresh

CONSTANTS s1, s2

TwoSessions == {s1, s2}
OneSession == {s1}
=============================================================================
