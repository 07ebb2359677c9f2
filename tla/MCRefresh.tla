------------------------------ MODULE MCRefresh ------------------------------
(***************************************************************************)
(* Small instances of Refresh: one or two Discord copies of one message,   *)
(* the second on a webhook the worker's snapshot lacks.                    *)
(***************************************************************************)
EXTENDS Refresh

MCMsgOf  == [k \in Keys |-> "m1"]
MCChatOf == [m \in Msgs |-> "chan"]
=============================================================================
