----------------------------- MODULE MCProcess -----------------------------
(***************************************************************************)
(* Two parts of the life of the process, side by side, which share nothing *)
(* but the run: its supervision and its configuration.  A behaviour is of  *)
(* one lane.                                                               *)
(***************************************************************************)
EXTENDS Supervisor, HotReload

VARIABLE lane

R(n, c, i, t) == [name |-> n, chat |-> c, byId |-> i, to |-> t, sound |-> TRUE]

T(hooks, routes, ops) == [hooks |-> hooks, routes |-> routes, ops |-> ops]

(* The usual file; one with a webhook, two routes and an ops webhook more; *)
(* one whose webhook has moved; two whose variables are not all set; one   *)
(* with a typing error.                                                    *)
MCText ==
    LET usual == {R("r1", "c1", FALSE, {"h1"})} IN
    [base  |-> T([h1 |-> "E1"], usual, {}),
     more  |-> T([h1 |-> "E1", h2 |-> "E2"],
                 usual \cup {R("r2", "c2", FALSE, {"h1", "h2"}), R("r3", "c3", TRUE, {"h2"})},
                 {"E2"}),
     moved |-> T([h1 |-> "E2"], usual, {}),
     unset |-> T([h1 |-> "E3"], usual, {}),
     mute  |-> T([h1 |-> "E1"], usual, {"E3"}),
     typo  |-> T([h1 |-> "E1"], {R("r1", "c1", FALSE, {"h2"})}, {})]

(* The ops webhook does not answer: the harder case.                       *)
MCInit ==
    /\ lane \in {"process", "reload"}
    /\ Init /\ ~discord /\ (lane # "process" => link = "up")
    /\ ReloadInit /\ (lane # "reload" => file = "unset")

MCNext ==
    /\ UNCHANGED lane
    /\ \/ lane = "process" /\ Next /\ UNCHANGED reloadVars
       \/ lane = "reload" /\ ReloadNext /\ UNCHANGED vars

(* In a lane that is not taken nothing that must happen can: a process     *)
(* that is connecting waits, and the file of the idle lane does not load.  *)
MCSpec ==
    /\ MCInit /\ [][MCNext]_<<vars, reloadVars, lane>>
    /\ Fairness /\ ReloadFairness
=============================================================================
