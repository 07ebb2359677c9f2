------------------------------- MODULE MCAlbum -------------------------------
(***************************************************************************)
(* An album of two photos, of which the first goes to one webhook only,    *)
(* and a single media message that is too big to download; then edits of   *)
(* the photos, one that the LRU still knows and one that it has forgotten. *)
(***************************************************************************)
EXTENDS Album

MCMsgOf     == [i \in Items |-> <<1, 2, 2, 3, 1>>[i]]
MCGroupOf   == [m \in Msgs |-> IF m = 3 THEN NoGroup ELSE "album"]
MCTargetsOf == [i \in Items |-> CASE MCMsgOf[i] = 1 -> {"w1"} [] MCMsgOf[i] = 2 -> Webhooks
                                    [] OTHER -> {"w2"}]
MCOldRows   == {<<2, "w1">>}
=============================================================================
