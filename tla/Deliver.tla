------------------------------ MODULE Deliver ------------------------------
(***************************************************************************)
(* One call of the Deliverer (src/src/deliver.rs) against Discord's HTTP   *)
(* interface: a post, through send_json_capture or the same loop in        *)
(* post_media_embed, or a patch, through patch_embed or patch_webhook.     *)
(* A post honours 429 as often as two limits allow and retries 5xx and     *)
(* network errors with backoff; a patch honours one 429 and nothing else.  *)
(* A request that fails may still have taken effect.                       *)
(***************************************************************************)
EXTENDS Naturals, Sequences, SequencesExt

CONSTANTS
    Backoffs,    \* the pauses after a 5xx or a network error
    MaxLimited,  \* MAX_429_ATTEMPTS
    Budget,      \* RATE_LIMIT_BUDGET_SECS
    Waits        \* the Retry-After values Discord may send, 1 when it sends none

ASSUME DeliverAssumption ==
    /\ Backoffs \in Seq(Nat)
    /\ MaxLimited \in Nat \ {0}
    /\ Budget \in Nat
    /\ Waits \subseteq Nat

VARIABLES
    kind,      \* "post" or "patch"
    attempt,   \* backoffs used
    limited,   \* 429s seen
    waited,    \* time waited for 429s
    pause,     \* how long the loop is to sleep before it sends again
    outcome,   \* "none", "delivered" or "dropped"
    (* observability *)
    made,      \* messages Discord has made for a post
    sends,     \* requests sent
    slept,     \* time slept in all
    id         \* the message the caller was told of, 0 for none

vars == <<kind, attempt, limited, waited, pause, outcome, made, sends, slept, id>>

TypeOK ==
    /\ kind \in {"post", "patch"}
    /\ attempt \in 0..Len(Backoffs) /\ limited \in 0..MaxLimited
    /\ waited \in Nat /\ pause \in Nat /\ slept \in Nat
    /\ outcome \in {"none", "delivered", "dropped"}
    /\ made \in Nat /\ sends \in Nat /\ id \in Nat

Init ==
    /\ kind \in {"post", "patch"}
    /\ attempt = 0 /\ limited = 0 /\ waited = 0 /\ pause = 0
    /\ outcome = "none"
    /\ made = 0 /\ sends = 0 /\ slept = 0 /\ id = 0

Finish(o) == outcome' = o /\ UNCHANGED <<attempt, limited, waited, pause>>

(* Every request makes a message (or changes one), or does not. *)
Send(takesEffect) ==
    /\ outcome = "none" /\ pause = 0
    /\ sends' = sends + 1
    /\ made' = IF kind = "post" /\ takesEffect THEN made + 1 ELSE made
    /\ UNCHANGED <<kind, slept>>

(* A faulty variant: a post without an id counts as delivered. *)
SuccessWithoutId(readable) ==
    /\ Send(TRUE)
    /\ Finish("delivered")
    /\ id' = IF kind = "post" /\ readable THEN made' ELSE id

(* 2xx. A post whose answer holds no message id counts as dropped. *)
Success(readable) ==
    /\ Send(TRUE)
    /\ Finish(IF kind = "post" /\ ~readable THEN "dropped" ELSE "delivered")
    /\ id' = IF kind = "post" /\ readable THEN made' ELSE id

(* A faulty variant: the budget alone bounds the 429s, so waits of zero    *)
(* never end.                                                              *)
PostLimitedByBudgetOnly(wait) ==
    /\ kind = "post" /\ Send(FALSE) /\ id' = id
    /\ IF waited + wait > Budget
       THEN Finish("dropped")
       ELSE /\ limited' = limited + 1
            /\ waited' = waited + wait
            /\ pause' = wait
            /\ UNCHANGED <<attempt, outcome>>

(* 429 to a post: it does not use up a backoff. *)
PostLimited(wait) ==
    /\ kind = "post" /\ Send(FALSE) /\ id' = id
    /\ IF limited + 1 >= MaxLimited \/ waited + wait > Budget
       THEN Finish("dropped")
       ELSE /\ limited' = limited + 1
            /\ waited' = waited + wait
            /\ pause' = wait
            /\ UNCHANGED <<attempt, outcome>>

(* A faulty variant: giving up is reported as delivery. *)
PostFailedClaimed(takesEffect) ==
    /\ kind = "post" /\ Send(takesEffect) /\ id' = id
    /\ IF attempt >= Len(Backoffs)
       THEN Finish("delivered")
       ELSE /\ attempt' = attempt + 1
            /\ pause' = Backoffs[attempt + 1]
            /\ UNCHANGED <<limited, waited, outcome>>

(* 5xx or a network error. *)
PostFailed(takesEffect) ==
    /\ kind = "post" /\ Send(takesEffect) /\ id' = id
    /\ IF attempt >= Len(Backoffs)
       THEN Finish("dropped")
       ELSE /\ attempt' = attempt + 1
            /\ pause' = Backoffs[attempt + 1]
            /\ UNCHANGED <<limited, waited, outcome>>

(* A faulty variant: every 429 to a patch is honoured. *)
PatchLimitedAgain(wait) ==
    /\ kind = "patch" /\ Send(FALSE) /\ id' = id
    /\ limited' = 1 /\ pause' = wait /\ UNCHANGED <<attempt, waited, outcome>>

(* 429 to a patch is honoured once, however long it asks to wait. *)
PatchLimited(wait) ==
    /\ kind = "patch" /\ Send(FALSE) /\ id' = id
    /\ IF limited = 0
       THEN limited' = 1 /\ pause' = wait /\ UNCHANGED <<attempt, waited, outcome>>
       ELSE Finish("dropped")

PatchFailed(takesEffect) ==
    /\ kind = "patch" /\ Send(takesEffect) /\ id' = id
    /\ Finish("dropped")

(* Any other status. *)
Refused == /\ Send(FALSE)
           /\ id' = id
           /\ Finish("dropped")

Sleep ==
    /\ pause > 0
    /\ slept' = slept + pause
    /\ pause' = 0
    /\ UNCHANGED <<kind, attempt, limited, waited, outcome, made, sends, id>>

Next ==
    \/ \E readable \in BOOLEAN : Success(readable)
    \/ \E w \in Waits : PostLimited(w) \/ PatchLimited(w)
    \/ \E e \in BOOLEAN : PostFailed(e) \/ PatchFailed(e)
    \/ Refused
    \/ Sleep

Spec == Init /\ [][Next]_vars
-----------------------------------------------------------------------------
(* However Discord mixes its answers (429s that ask for no wait, 5xx in    *)
(* between), a post is bounded: in requests and in time slept.             *)
PostIsBounded ==
    kind = "post" =>
        /\ sends <= Len(Backoffs) + MaxLimited
        /\ slept + pause <= Budget + FoldSeq(LAMBDA x, y : x + y, 0, Backoffs)

(* A patch, behind which a whole refresh tick or the start of the process  *)
(* waits, holds it up with two requests and one of Discord's waits at the  *)
(* most; how long that wait is, is Discord's to say.                       *)
PatchIsBrief ==
    kind = "patch" => sends <= 2 /\ slept + pause \in Waits \cup {0}

(* The bound on requests, in the form that a step keeps: while a post goes *)
(* on, each request so far has used up a backoff or counted as a 429.      *)
RequestsAreCounted ==
    kind = "post" =>
        IF outcome = "none" THEN sends = attempt + limited /\ limited < MaxLimited
                            ELSE sends <= Len(Backoffs) + MaxLimited

(* The id the store will record is that of the message just made, and the  *)
(* only one a later refresh can still find; without an id none is          *)
(* recorded. So every other message made is one no row will ever name.     *)
IdIsOfTheLast == IF id = 0 THEN kind = "post" => outcome # "delivered"
                           ELSE outcome = "delivered" /\ id = made

(* What Relay and Album take a post to be. *)
Promise == INSTANCE PostPromise WITH
    outcome <- IF kind = "post" THEN outcome ELSE "none"
KeepsPostPromise == Promise!Spec
=============================================================================
