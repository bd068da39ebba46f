----------------------------- MODULE MCDesktop ------------------------------
(* Constants for model-checking Desktop.                                   *)
EXTENDS Desktop, TLC

CONSTANTS app, cli

OneApp == {app}
OneCli == {cli}
=============================================================================
