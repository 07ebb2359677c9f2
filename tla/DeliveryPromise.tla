--------------------------- MODULE DeliveryPromise ---------------------------
(***************************************************************************)
(* What delivery promises for every <<message, webhook>> pair, whatever    *)
(* tasks, processes and retries carry it out: a pair is posted only when   *)
(* some route wanted it there, and it is posted again only when there was  *)
(* an excuse for it before the repetition.                                 *)
(***************************************************************************)
CONSTANT Pairs

VARIABLES
    wanted,    \* pairs some route has asked for
    sent,      \* pairs shown on Discord at least once
    repeated,  \* pairs shown more than once
    excused    \* pairs whose first copy the relay may not know of

vars == <<wanted, sent, repeated, excused>>

Init == wanted = {} /\ sent = {} /\ repeated = {} /\ excused = {}

Post(p) ==
    /\ p \in wanted
    /\ \/ /\ p \notin sent
          /\ sent' = sent \cup {p}
          /\ repeated' = repeated
       \/ /\ p \in sent \cap excused
          /\ sent' = sent
          /\ repeated' = repeated \cup {p}

Next ==
    /\ wanted \subseteq wanted' /\ wanted' \subseteq Pairs
    /\ excused \subseteq excused' /\ excused' \subseteq Pairs
    /\ \/ UNCHANGED <<sent, repeated>>
       \/ \E p \in Pairs : Post(p)

Spec == Init /\ [][Next]_vars
=============================================================================
