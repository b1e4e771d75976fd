------------------------------- MODULE Signer -------------------------------
(***************************************************************************)
(* What a signing device promises, and nothing of how it does it: an item  *)
(* is shown, the user agrees to it or not, and only what was agreed to is  *)
(* signed, once.  HiveApp implements this module.                          *)
(***************************************************************************)
CONSTANTS
  Items,   \* what can be shown and signed
  Nothing  \* none of them

VARIABLES
  stage,   \* how far the item on the display has got
  item,    \* that item
  signed   \* the item the last answer to the host is a signature of

vars == <<stage, item, signed>>

Init == stage = "idle" /\ item = Nothing /\ signed = Nothing

Show(i) ==
  /\ stage = "idle" /\ stage' = "review"
  /\ item' = i /\ signed' = Nothing

Agree ==
  /\ stage = "review" /\ stage' = "agreed"
  /\ UNCHANGED <<item, signed>>

Grant ==
  /\ stage = "agreed" /\ stage' = "idle"
  /\ item' = Nothing /\ signed' = item

\* The user refuses, the signature fails, the device restarts, or the host
\* goes on to something else.
Drop == stage' = "idle" /\ item' = Nothing /\ signed' = Nothing

Next == (\E i \in Items : Show(i)) \/ Agree \/ Grant \/ Drop

Spec == Init /\ [][Next]_vars
=============================================================================
