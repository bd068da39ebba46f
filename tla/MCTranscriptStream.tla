------------------------- MODULE MCTranscriptStream -------------------------
(* One phone and one desktop on a session whose ring holds a single event. *)
EXTENDS TranscriptStream

CONSTANTS phone, desktop

OnePhone    == {phone}
OneDesktop  == {desktop}

(* The phone may reconnect or resubscribe, the desktop joins once.         *)
PhoneReturns == [c \in Devices |-> IF c \in Phones THEN 3 ELSE 2]

(* Three events before the daemon restarts, two after.                     *)
FewerLater == [process \in 1 .. MaxChurn |-> IF process = 1 THEN 3 ELSE 2]

=============================================================================
