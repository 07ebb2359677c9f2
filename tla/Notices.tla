------------------------------- MODULE Notices -------------------------------
(***************************************************************************)
(* Ops in src/src/main.rs: the notices of dropped deliveries that delivery *)
(* tasks and the loop hand to drop_notice, which lets one through in a     *)
(* minute.  The slot (last_drop) is taken under a lock; the post follows   *)
(* after the lock is released, and a post that fails is not told to anyone *)
(* nor tried again later.  Every process starts with a free slot.          *)
(***************************************************************************)
EXTENDS Naturals

CONSTANTS
    Tasks,    \* whoever may call drop_notice at the same time
    Gap,      \* the minute between two drop notices
    MaxPost   \* bound: the longest post of a notice, or wait before it

ASSUME NoticesAssumption == Gap \in Nat \ {0} /\ MaxPost \in Nat

VARIABLES
    slot,     \* time since last_drop was set; Gap when it may be set again
    task,     \* each caller: "working", "slotted" or "posting"
    spent,    \* for how long it has been slotted or posting
    discord,  \* whether the ops webhook takes posts
    (* observability *)
    tried,    \* time since a caller last got the slot, up to Gap
    taken     \* the callers that got it, in the last Gap units of this process

noticesVars == <<slot, task, spent, discord, tried, taken>>

NoticesTypeOK ==
    /\ slot \in 0..Gap /\ tried \in 0..Gap
    /\ task \in [Tasks -> {"working", "slotted", "posting"}]
    /\ spent \in [Tasks -> 0..MaxPost]
    /\ discord \in BOOLEAN
    /\ taken \in Nat

NoticesInit ==
    /\ slot = Gap /\ tried = Gap /\ taken = 0
    /\ task = [t \in Tasks |-> "working"]
    /\ spent = [t \in Tasks |-> 0]
    /\ discord \in BOOLEAN

(* A faulty variant: the slot is taken once the post is made. *)
AdmitWithoutSlot(t) ==
    /\ task[t] = "working" /\ slot = Gap
    /\ slot' = Gap /\ tried' = 0 /\ taken' = taken + 1
    /\ task' = [task EXCEPT ![t] = "slotted"]
    /\ spent' = [spent EXCEPT ![t] = 0]
    /\ UNCHANGED discord

(* A call that gets through. *)
Admit(t) ==
    /\ task[t] = "working" /\ slot = Gap
    /\ slot' = 0 /\ tried' = 0 /\ taken' = taken + 1
    /\ task' = [task EXCEPT ![t] = "slotted"]
    /\ spent' = [spent EXCEPT ![t] = 0]
    /\ UNCHANGED discord

(* A faulty variant: every call moves last_drop. *)
SwallowAndRestart(t) ==
    /\ task[t] = "working" /\ slot < Gap
    /\ slot' = 0
    /\ UNCHANGED <<task, spent, discord, tried, taken>>

(* A call within the minute returns at once. *)
Swallow(t) ==
    /\ task[t] = "working" /\ slot < Gap
    /\ UNCHANGED noticesVars

Post(t) ==
    /\ task[t] = "slotted"
    /\ task' = [task EXCEPT ![t] = "posting"]
    /\ spent' = [spent EXCEPT ![t] = 0]
    /\ UNCHANGED <<slot, discord, tried, taken>>

(* The post reached the channel, or was dropped; the caller cannot tell. *)
Heard(t) ==
    /\ task[t] = "posting" /\ discord
    /\ task' = [task EXCEPT ![t] = "working"]
    /\ UNCHANGED <<slot, spent, discord, tried, taken>>

Unheard(t) ==
    /\ task[t] = "posting" /\ ~discord
    /\ task' = [task EXCEPT ![t] = "working"]
    /\ UNCHANGED <<slot, spent, discord, tried, taken>>

(* The process ends, with its slot and its callers, and another starts. *)
NewProcess ==
    /\ slot' = Gap /\ tried' = Gap /\ taken' = 0
    /\ task' = [t \in Tasks |-> "working"]
    /\ spent' = [t \in Tasks |-> 0]
    /\ UNCHANGED discord

Discord == discord' = ~discord /\ UNCHANGED <<slot, task, spent, tried, taken>>

(* duration_since, up to the minute. *)
Older(n) == IF n < Gap THEN n + 1 ELSE n

MinuteRuns ==
    /\ \A t \in Tasks : task[t] # "working" => spent[t] < MaxPost
    /\ slot' = Older(slot) /\ tried' = Older(tried)
    /\ taken' = IF tried' = Gap THEN 0 ELSE taken
    /\ spent' = [t \in Tasks |-> IF task[t] = "working" THEN 0 ELSE spent[t] + 1]
    /\ UNCHANGED <<task, discord>>

Step(t) == Admit(t) \/ Swallow(t) \/ Post(t) \/ Heard(t) \/ Unheard(t)

NoticesNext == (\E t \in Tasks : Step(t)) \/ NewProcess \/ Discord \/ MinuteRuns

NoticesSpec == NoticesInit /\ [][NoticesNext]_noticesVars

(* Posts end and time goes on; drops go on too, for as long as one may get *)
(* through.                                                                *)
NoticesFairness ==
    /\ \A t \in Tasks : WF_noticesVars(Post(t)) /\ WF_noticesVars(Heard(t)) /\ WF_noticesVars(Unheard(t))
    /\ WF_noticesVars(MinuteRuns)
    /\ WF_noticesVars(\E t \in Tasks : Admit(t))

NoticesFairSpec == NoticesSpec /\ NoticesFairness
-----------------------------------------------------------------------------
(* In any minute of one process at most one caller gets through, however   *)
(* many drop deliveries at once and however long their posts take: ops is  *)
(* not flooded.  (drop_notice.)                                            *)
OneAMinute == taken <= 1

(* While drops go on in one process and the ops webhook takes posts, ops   *)
(* hears of drops again and again, whatever was lost before.               *)
DropsAreHeard ==
    (<>[]discord /\ <>[][~NewProcess]_noticesVars) => []<><<\E t \in Tasks : Heard(t)>>_noticesVars
=============================================================================
