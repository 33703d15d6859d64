------------------------- MODULE OneShotPublication -------------------------
(***************************************************************************)
(* What one attempt to publish promises whoever started it.  The effect    *)
(* happens at most once.  The starter is told one thing, once: that there  *)
(* is no effect and there will be none, that there is one, or that it is   *)
(* unclear; and only in the last case may the effect still come.           *)
(***************************************************************************)

VARIABLES
    effect,     \* "none" until the publication is durable, then "committed"
    told        \* "pending", then "none", "committed" or "unclear"

vars == <<effect, told>>

Init == effect = "none" /\ told = "pending"

Commit ==
    /\ effect = "none" /\ told \in {"pending", "unclear"}
    /\ effect' = "committed"
    /\ UNCHANGED told

Tell ==
    /\ told = "pending"
    /\ told' \in {effect, "unclear"}
    /\ UNCHANGED effect

Next == Commit \/ Tell

Spec == Init /\ [][Next]_vars
=============================================================================
