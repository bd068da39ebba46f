---------------------------- MODULE Conversation ----------------------------
(* What a transcript promises its reader, whatever made it: items are only *)
(* added at the end, each under a key of its own; the text of an assistant *)
(* item grows while it is the last text; a tool call settles once, with an *)
(* output it keeps. Nothing is reordered, taken back or shown twice.       *)
EXTENDS Naturals, Sequences

CONSTANTS Keys, Unsettled

VARIABLE items

Init == items = <<>>

\* A new item: a prompt, an empty text, or a tool call without its result.
Add(key, kind) ==
    /\ \A i \in DOMAIN items : items[i].key # key
    /\ items' = Append(items, [key |-> key, kind |-> kind, text |-> 0, result |-> Unsettled])

\* The text that streams is longer.
Grow(i) ==
    /\ items[i].kind = "text"
    /\ \A j \in DOMAIN items : j > i => items[j].kind # "text"
    /\ items' = [items EXCEPT ![i].text = @ + 1]

\* The tool has run.
Settle(i, result) ==
    /\ items[i].kind = "tool" /\ items[i].result = Unsettled /\ result # Unsettled
    /\ items' = [items EXCEPT ![i].result = result]

Next ==
    \/ \E key \in Keys, kind \in {"user", "text", "tool"} : Add(key, kind)
    \/ \E i \in DOMAIN items : Grow(i)
    \/ \E i \in DOMAIN items : Settle(i, items'[i].result)

Spec == Init /\ [][Next]_items

=============================================================================
