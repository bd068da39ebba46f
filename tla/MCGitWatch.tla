----------------------------- MODULE MCGitWatch -----------------------------
(* Constants for model-checking GitWatch.                                  *)
EXTENDS GitWatch, TLC

CONSTANTS phone, tablet

OnePhone == {phone}
TwoDevices == {phone, tablet}
OnePhoneTwice == [d \in OnePhone |-> 2]
OnePhoneThrice == [d \in OnePhone |-> 3]
PhoneTwice == [d \in TwoDevices |-> IF d = phone THEN 2 ELSE 1]
OnceEach == [d \in TwoDevices |-> 1]
=============================================================================
