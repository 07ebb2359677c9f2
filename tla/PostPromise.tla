----------------------------- MODULE PostPromise -----------------------------
(***************************************************************************)
(* One post to Discord, as the delivery tasks of Relay and Album see it:   *)
(* messages may be made whose id never arrives, and in the end the post is *)
(* delivered, with the id of the message just made, or dropped.            *)
(***************************************************************************)
EXTENDS Naturals

VARIABLES made, outcome

vars == <<made, outcome>>

Init == made = 0 /\ outcome = "none"

(* Discord made a message and nobody here will know its id. *)
Lose == /\ outcome = "none"
        /\ made' = made + 1
        /\ outcome' \in {"none", "dropped"}

Deliver == /\ outcome = "none"
           /\ made' = made + 1
           /\ outcome' = "delivered"

Drop == /\ outcome = "none"
        /\ made' = made
        /\ outcome' = "dropped"

Next == Lose \/ Deliver \/ Drop

Spec == Init /\ [][Next]_vars
=============================================================================
