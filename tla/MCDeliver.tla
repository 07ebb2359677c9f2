----------------------------- MODULE MCDeliver -----------------------------
(***************************************************************************)
(* Four lanes that lead to Discord, side by side: one call of the         *)
(* Deliverer, with three backoffs as in the code and limits small enough   *)
(* to be reached; the callers of drop_notice, whose posts may outlast the  *)
(* minute; the webhook identities synced at every start; and a message     *)
(* with media and its refreshes.  They share nothing; a behaviour is of    *)
(* one lane.                                                               *)
(***************************************************************************)
EXTENDS Deliver, Notices, WebhookIdentity, Embeds

VARIABLE lane

MCBackoffs == <<1, 2, 4>>

(* Two routes share the webhook h1. *)
MCHops == <<[chat |-> "c1", hook |-> "h1"], [chat |-> "c2", hook |-> "h1"],
            [chat |-> "c2", hook |-> "h2"]>>

P(n) == [name |-> <<n>>, image |-> TRUE]
V(n) == [name |-> <<n>>, image |-> FALSE]

(* Stems are numbers beyond the ids.  No media; a photo; a video among     *)
(* photos; names that repeat; more images than there is room for; a name   *)
(* another one is changed to.                                              *)
MCBatches == {<<>>, <<P(10)>>, <<P(10), V(20), P(11)>>, <<P(10), P(10), V(10)>>,
              <<P(10), P(11), V(20), P(12), P(13)>>,
              <<[name |-> <<10, 3>>, image |-> TRUE], P(10), P(10)>>}

(* A lane that is not taken has one initial state. *)
MCInit ==
    /\ lane \in {"call", "notices", "identity", "message"}
    /\ Init /\ (lane # "call" => kind = "post")
    /\ NoticesInit /\ (lane # "notices" => discord)
    /\ IdentityInit /\ channel["c1"].title = "A"
    /\ EmbedsInit /\ (lane # "message" => batch = <<>>)
    /\ (lane # "identity" => channel["c2"].title = "A")

MCNext ==
    /\ UNCHANGED lane
    /\ \/ lane = "call" /\ Next /\ UNCHANGED <<noticesVars, identityVars, embedsVars>>
       \/ lane = "notices" /\ NoticesNext /\ UNCHANGED <<vars, identityVars, embedsVars>>
       \/ lane = "identity" /\ IdentityNext /\ UNCHANGED <<vars, noticesVars, embedsVars>>
       \/ lane = "message" /\ EmbedsNext /\ UNCHANGED <<vars, noticesVars, identityVars>>

MCSpec ==
    /\ MCInit /\ [][MCNext]_<<vars, noticesVars, identityVars, embedsVars, lane>>
    /\ lane = "notices" => NoticesFairness

MCDropsAreHeard == lane = "notices" => DropsAreHeard
=============================================================================
