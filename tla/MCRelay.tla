------------------------------ MODULE MCRelay ------------------------------
(***************************************************************************)
(* A small instance of Relay: two messages, of one chat or of two; two     *)
(* routes on the first chat that share a webhook and filter differently;   *)
(* a route on the second chat that lets one body through and not the other.*)
(***************************************************************************)
EXTENDS Relay

MCOneChat   == [m \in Msgs |-> "chan"]
MCTwoChats  == [m \in Msgs |-> IF m = 1 THEN "chan" ELSE "group"]
MCRouteChat == [r \in Routes |-> IF r = 3 THEN "group" ELSE "chan"]
MCTo        == [r \in Routes |-> IF r = 1 THEN {"w1"} ELSE Webhooks]
MCPasses    == [r \in Routes |-> IF r = 2 THEN {"hit", "miss"} ELSE {"hit"}]
=============================================================================
