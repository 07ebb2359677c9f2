------------------------------ MODULE Refresh ------------------------------
(***************************************************************************)
(* The refresh worker (src/src/refresh.rs) and the part of the store it    *)
(* lives on: every base tick it picks the recorded posts whose cadence is  *)
(* due, fetches their source from Telegram chat by chat, PATCHes the       *)
(* Discord embed of each one that changed and only then saves the new      *)
(* state; at the end of a tick it prunes what the horizon has passed.      *)
(*                                                                         *)
(* Fetching, PATCHing and saving are separate actions, so the source can   *)
(* change, time can pass and the process can die between any two of them.  *)
(* A key is one recorded Discord message. Only the worker writes a row     *)
(* after Store::record made it, so the rows that tick_once snapshots are   *)
(* read here where they are used; the ages it computes once per tick are   *)
(* computed once here too.                                                 *)
(***************************************************************************)
EXTENDS Naturals, FiniteSets

CONSTANTS
    Keys,            \* Discord messages
    Msgs,            \* Telegram messages
    MsgOf,           \* [Keys -> Msgs]
    ChatOf,          \* [Msgs -> chats]
    Texts,           \* message texts; Texts stands for their hashes too
    Known,           \* keys whose webhook is in the worker's startup snapshot
    Noticed,         \* messages relayed as text plus a media notice
    Base,            \* time between ticks
    Early, Interval, ReactionHorizon,  \* the checkpoints
    Horizon,         \* age at which a post leaves the worker's sight
    MaxChanges,      \* bound: changes of the source
    MaxSlow,         \* bound: time that passes while a tick is running
    Faults,          \* the kinds of trouble this instance includes
    MaxFaults        \* bound: how often trouble strikes

FaultKinds == {"dueError", "fetch", "patchDropped", "replyLost", "storeError",
               "pruneError", "crash"}

ASSUME RefreshAssumption ==
    /\ MsgOf \in [Keys -> Msgs]
    /\ Known \subseteq Keys /\ Noticed \subseteq Msgs
    /\ Base \in Nat \ {0} /\ Early \in Nat /\ Interval \in Nat
    /\ ReactionHorizon \in Nat /\ Horizon \in Nat
    /\ MaxChanges \in Nat /\ MaxSlow \in Nat /\ MaxFaults \in Nat
    /\ Faults \subseteq FaultKinds

VARIABLES
    (* Telegram *)
    src,        \* what each message is now
    had,        \* the texts it has had
    changes,    \* changes so far
    (* relay.db *)
    tracked,    \* keys with a row
    row,        \* their rows
    (* Discord *)
    embed,      \* what each key shows
    (* the worker *)
    up,         \* the process is running
    phase,      \* time since the last multiple of Base
    owed,       \* the ticker has fired
    busy,       \* a tick is running
    picks,      \* rows this tick still has to fetch
    allow,      \* rows of this tick with allow_stats
    todo,       \* fetched rows it still has to apply
    answer,     \* what Telegram answered
    landed,     \* the PATCH that succeeded and is not saved yet: {} or {[key, step]}
    (* observability *)
    excused,    \* keys whose embed may have changed behind the row's back
    stale,      \* how long a key has been out of date, in untroubled service
                \* and with the source left alone
    fired,      \* checkpoints that were found due, per key
    polled,     \* answers obtained from Telegram, per key
    slow, faults

source  == <<src, had, changes>>
store   == <<tracked, row>>
ticker  == <<phase, owed, slow>>
tick    == <<busy, picks, allow, todo, answer, landed>>
history == <<excused, stale, fired, polled>>
vars == <<src, had, changes, tracked, row, embed, up, phase, owed, busy, picks,
          allow, todo, answer, landed, excused, stale, fired, polled, slow, faults>>

Checkpoints == {Early, Interval, ReactionHorizon}
Where       == {"here", "gone"}
Body        == [text : Texts, notice : BOOLEAN]

(* Ages are in units of time, and stop growing past the horizon. *)
Ages == 0..(Horizon + 1)

Source == [where : Where, text : Texts, likes : 0..1, comments : 0..1]
Row    == [hash : Body, likes : 0..1, comments : 0..1, edited : BOOLEAN,
           deleted : BOOLEAN, age : Ages, checked : Ages]
Embed  == [body : Body, likes : 0..1, comments : 0..1, edited : BOOLEAN, deleted : BOOLEAN]
Answer == [there : BOOLEAN, text : Texts, likes : 0..1, counted : BOOLEAN, comments : 0..1]

TypeOK ==
    /\ src \in [Msgs -> Source] /\ had \in [Msgs -> SUBSET Texts]
    /\ changes \in 0..MaxChanges
    /\ tracked \subseteq Keys
    /\ DOMAIN row = tracked /\ \A k \in tracked : row[k] \in Row
    /\ tracked \subseteq DOMAIN embed /\ DOMAIN embed \subseteq Keys
    /\ \A k \in DOMAIN embed : embed[k] \in Embed
    /\ up \in BOOLEAN /\ phase \in 0..(Base - 1) /\ owed \in BOOLEAN
    /\ busy \in BOOLEAN
    /\ picks \subseteq tracked /\ todo \subseteq tracked /\ picks \cap todo = {}
    /\ allow \subseteq tracked
    /\ DOMAIN answer \subseteq Msgs /\ \A m \in DOMAIN answer : answer[m] \in Answer
    /\ \A k \in todo : MsgOf[k] \in DOMAIN answer
    /\ landed \subseteq [key : todo, step : {"mark", "stats", "delete"}]
    /\ Cardinality(landed) <= 1
    /\ excused \subseteq Keys
    /\ stale \in [Keys -> Nat] /\ polled \in [Keys -> Nat]
    /\ fired \in [Keys -> SUBSET Checkpoints]
    /\ slow \in 0..MaxSlow /\ faults \in 0..MaxFaults

Nothing == [x \in {} |-> {}]

Init ==
    /\ src \in [Msgs -> {s \in Source : s.where = "here" /\ s.likes = 0 /\ s.comments = 0}]
    /\ had = [m \in Msgs |-> {src[m].text}]
    /\ changes = 0
    /\ tracked = {} /\ row = Nothing /\ embed = Nothing
    /\ up = TRUE /\ phase = 0 /\ owed = FALSE
    /\ busy = FALSE /\ picks = {} /\ allow = {} /\ todo = {} /\ answer = Nothing
    /\ landed = {}
    /\ excused = {} /\ stale = [k \in Keys |-> 0]
    /\ fired = [k \in Keys |-> {}] /\ polled = [k \in Keys |-> 0]
    /\ slow = 0 /\ faults = 0

Strike(kind) == /\ kind \in Faults
                /\ faults < MaxFaults
                /\ faults' = faults + 1
-----------------------------------------------------------------------------
(* Telegram: a message is edited, gains reactions and comments, is deleted *)

Change(m, s) ==
    /\ changes < MaxChanges
    /\ changes' = changes + 1
    /\ src' = [src EXCEPT ![m] = s]
    /\ had' = [had EXCEPT ![m] = @ \cup {s.text}]
    /\ stale' = [k \in Keys |-> IF MsgOf[k] = m THEN 0 ELSE stale[k]]
    /\ UNCHANGED <<store, embed, up, ticker, tick, excused, fired, polled, faults>>

EditSource(m, t) ==
    /\ src[m].where = "here" /\ src[m].text # t
    /\ Change(m, [src[m] EXCEPT !.text = t])

React(m) ==
    /\ src[m].where = "here"
    /\ Change(m, [src[m] EXCEPT !.likes = 1 - @])

Comment(m) ==
    /\ src[m].where = "here" /\ src[m].comments = 0
    /\ Change(m, [src[m] EXCEPT !.comments = 1])

DeleteSource(m) ==
    /\ src[m].where = "here"
    /\ Change(m, [src[m] EXCEPT !.where = "gone"])
-----------------------------------------------------------------------------
(* Delivery posts key k with a text the message has had, and records it.   *)
(* A live text is hashed with its media notice, a backfilled one without.  *)

Hashed(m, t, live) == [text |-> t, notice |-> live /\ m \in Noticed]

Record(k, t, live) ==
    /\ live => up
    /\ k \notin DOMAIN embed
    /\ LET m == MsgOf[k]
           n == IF live THEN 0 ELSE src[m].likes
           c == IF live THEN 0 ELSE src[m].comments
       IN  /\ t \in had[m]
           /\ tracked' = tracked \cup {k}
           /\ embed' = [q \in DOMAIN embed \cup {k} |-> IF q # k THEN embed[q] ELSE
                         [body |-> [text |-> t, notice |-> m \in Noticed], likes |-> n,
                          comments |-> c, edited |-> FALSE, deleted |-> FALSE]]
           /\ row' = [q \in tracked \cup {k} |-> IF q # k THEN row[q] ELSE
                       [hash |-> Hashed(m, t, live), likes |-> n, comments |-> c,
                        edited |-> FALSE, deleted |-> FALSE, age |-> 0, checked |-> 0]]
    /\ UNCHANGED <<source, up, ticker, tick, history, faults>>
-----------------------------------------------------------------------------
(* Time. The ticker is punctual when no tick is running.                   *)

Due == {k \in tracked : ~row[k].deleted /\ row[k].age <= Horizon}

OutOfDate(k) ==
    \/ src[MsgOf[k]].where = "here" /\ embed[k].body.text # src[MsgOf[k]].text
    \/ src[MsgOf[k]].where = "gone" /\ ~embed[k].deleted

Elapse ==
    /\ IF busy THEN slow < MaxSlow /\ slow' = slow + 1
               ELSE ~(up /\ owed) /\ slow' = slow
    /\ phase' = (phase + 1) % Base
    /\ owed' = (owed \/ (up /\ phase' = 0))
    /\ row' = [k \in tracked |-> IF row[k].age > Horizon THEN row[k]
                                 ELSE [row[k] EXCEPT !.age = @ + 1]]
    /\ stale' = [k \in Keys |-> IF up /\ k \in Due \cap (Known \ excused) /\ OutOfDate(k)
                                THEN stale[k] + 1 ELSE 0]
    /\ UNCHANGED <<source, tracked, embed, up, tick, excused, fired, polled, faults>>
-----------------------------------------------------------------------------
(* decide_refresh, for a row of age a, last checked at age c. *)

(* A faulty variant: a checkpoint does not count at its own age. *)
CrossedStrictly(a, c) == IF a > ReactionHorizon THEN {}
                         ELSE {p \in Checkpoints : c < p /\ p < a}

Crossed(a, c) == IF a > ReactionHorizon THEN {}
                 ELSE {p \in Checkpoints : c < p /\ p <= a}

(* A faulty variant: without the edit cadence. *)
FetchDueAtCheckpointsOnly(a, c) == Crossed(a, c) # {}

FetchDue(a, c) == Crossed(a, c) # {} \/ a - c >= Interval

(* tick_once: an empty due() ends the tick at once, without pruning. *)
TickIdle ==
    /\ up /\ ~busy /\ owed
    /\ Due = {}
    /\ owed' = FALSE
    /\ UNCHANGED <<source, store, embed, up, phase, slow, tick, history, faults>>

TickStart ==
    /\ up /\ ~busy /\ owed
    /\ Due # {}
    /\ owed' = FALSE
    /\ busy' = TRUE
    /\ picks' = {k \in Due : FetchDue(row[k].age, row[k].checked)}
    /\ allow' = {k \in Due : row[k].age <= ReactionHorizon}
    /\ fired' = [k \in Keys |-> IF k \in Due
                                THEN fired[k] \cup Crossed(row[k].age, row[k].checked)
                                ELSE fired[k]]
    /\ UNCHANGED <<source, store, embed, up, phase, slow, todo, answer, landed,
                   excused, stale, polled, faults>>

(* due() returns an error: the tick is over, the worker awaits the next.   *)
TickFails ==
    /\ up /\ ~busy /\ owed
    /\ Strike("dueError")
    /\ owed' = FALSE
    /\ stale' = [k \in Keys |-> 0]
    /\ UNCHANGED <<source, store, embed, up, phase, slow, tick, excused, fired, polled>>

(* get_messages_by_id for the picked messages of one chat. The batches in  *)
(* `lost` fail, their rows are skipped; a comment count may be missing.    *)
SlotOf(m, counted) ==
    [there |-> src[m].where = "here", text |-> src[m].text, likes |-> src[m].likes,
     counted |-> counted, comments |-> IF counted THEN src[m].comments ELSE 0]

(* A faulty variant: an id without a slot is taken for a deleted message. *)
FetchGuessesDeleted(c) ==
    /\ busy /\ todo = {}
    /\ LET mine == {k \in picks : ChatOf[MsgOf[k]] = c}
           ids  == {MsgOf[k] : k \in mine}
       IN  /\ mine # {}
           /\ \E lost \in SUBSET ids, counted \in BOOLEAN :
                /\ IF lost = {} THEN UNCHANGED faults ELSE Strike("fetch")
                /\ answer' = [m \in ids |-> IF m \in lost
                                            THEN [SlotOf(m, FALSE) EXCEPT !.there = FALSE]
                                            ELSE SlotOf(m, counted)]
                /\ todo' = mine
                /\ polled' = [k \in Keys |-> IF k \in todo' THEN polled[k] + 1 ELSE polled[k]]
                /\ stale' = [k \in Keys |-> IF k \in mine \ todo' THEN 0 ELSE stale[k]]
           /\ picks' = picks \ mine
    /\ UNCHANGED <<source, store, embed, up, ticker, busy, allow, landed, excused, fired>>

Fetch(c) ==
    /\ busy /\ todo = {}
    /\ LET mine == {k \in picks : ChatOf[MsgOf[k]] = c}
           ids  == {MsgOf[k] : k \in mine}
       IN  /\ mine # {}
           /\ \E lost \in SUBSET ids, counted \in BOOLEAN :
                /\ IF lost = {} THEN UNCHANGED faults ELSE Strike("fetch")
                /\ answer' = [m \in ids \ lost |-> SlotOf(m, counted)]
                /\ todo' = {k \in mine : MsgOf[k] \notin lost}
                /\ polled' = [k \in Keys |-> IF k \in todo' THEN polled[k] + 1 ELSE polled[k]]
                /\ stale' = [k \in Keys |-> IF k \in mine \ todo' THEN 0 ELSE stale[k]]
           /\ picks' = picks \ mine
    /\ UNCHANGED <<source, store, embed, up, ticker, busy, allow, landed, excused, fired>>
-----------------------------------------------------------------------------
(* diff, with stats frozen past the reaction horizon, and apply. *)

Slot(k) == answer[MsgOf[k]]

FetchedBody(k) == [text |-> Slot(k).text, notice |-> FALSE]

StatsDiffer(k) == \/ Slot(k).likes # row[k].likes
                  \/ Slot(k).counted /\ Slot(k).comments # row[k].comments

Kind(k) == CASE ~Slot(k).there                   -> "Deleted"
             [] Slot(k).there /\ FetchedBody(k) # row[k].hash -> "Edited"
             [] OTHER -> IF k \in allow /\ StatsDiffer(k) THEN "StatsChanged" ELSE "None"

EffectiveComments(k) == IF Slot(k).counted THEN Slot(k).comments ELSE row[k].comments

(* A faulty variant: only the edit just detected shows. *)
RebuiltForgetsEdit(k) ==
    IF Kind(k) = "Deleted"
    THEN [embed[k] EXCEPT !.likes = row[k].likes, !.comments = row[k].comments,
                          !.edited = FALSE, !.deleted = TRUE]
    ELSE [body |-> FetchedBody(k), likes |-> Slot(k).likes,
          comments |-> EffectiveComments(k), edited |-> Kind(k) = "Edited",
          deleted |-> FALSE]

(* The embed a PATCH replaces the old one with. A tombstone has no body;   *)
(* the last one is kept here as what the post used to show.                *)
Rebuilt(k) ==
    IF Kind(k) = "Deleted"
    THEN [embed[k] EXCEPT !.likes = row[k].likes, !.comments = row[k].comments,
                          !.edited = FALSE, !.deleted = TRUE]
    ELSE [body |-> FetchedBody(k), likes |-> Slot(k).likes,
          comments |-> EffectiveComments(k), edited |-> row[k].edited \/ Kind(k) = "Edited",
          deleted |-> FALSE]

Idle(k) == busy /\ k \in todo /\ landed = {}
Done(k) == todo' = todo \ {k} /\ landed' = {}

(* An UPDATE of row k that fails leaves it as before; the worker goes on.  *)
Write(k, r) == \/ row' = [row EXCEPT ![k] = r] /\ UNCHANGED faults
               \/ Strike("storeError") /\ UNCHANGED row

WriteAfterFault(k, r) == \/ row' = [row EXCEPT ![k] = r]
                         \/ "storeError" \in Faults /\ UNCHANGED row

(* A faulty variant: touch_checked does not advance last_checked. *)
TouchedNot(k) == row[k]

Touched(k) == [row[k] EXCEPT !.checked = row[k].age]

(* Nothing to PATCH, or no webhook to PATCH it through. *)
Touch(k) ==
    /\ Idle(k)
    /\ Kind(k) = "None" \/ k \notin Known
    /\ Write(k, IF Kind(k) = "Deleted" THEN [Touched(k) EXCEPT !.deleted = TRUE]
                                       ELSE Touched(k))
    /\ Done(k)
    /\ UNCHANGED <<source, tracked, embed, up, ticker, busy, picks, allow, answer, history>>

PatchLands(k) ==
    /\ Idle(k)
    /\ Kind(k) # "None" /\ k \in Known
    /\ embed' = [embed EXCEPT ![k] = Rebuilt(k)]
    /\ landed' = {[key |-> k, step |-> CASE Kind(k) = "Deleted" -> "delete"
                                         [] Kind(k) = "Edited" /\ ~row[k].edited -> "mark"
                                         [] OTHER -> "stats"]}
    /\ UNCHANGED <<source, store, up, ticker, busy, picks, allow, todo, answer,
                   history, faults>>

(* A faulty variant: the new state is saved though the PATCH was dropped. *)
PatchDroppedSaved(k) ==
    /\ Idle(k)
    /\ Kind(k) # "None" /\ k \in Known
    /\ Strike("patchDropped")
    /\ row' = [row EXCEPT ![k] = [Touched(k) EXCEPT !.hash = FetchedBody(k)]]
    /\ stale' = [stale EXCEPT ![k] = 0]
    /\ Done(k)
    /\ UNCHANGED <<source, tracked, embed, up, ticker, busy, picks, allow, answer,
                   excused, fired, polled>>

(* The PATCH did not reach Discord, or was refused. *)
PatchDropped(k) ==
    /\ Idle(k)
    /\ Kind(k) # "None" /\ k \in Known
    /\ Strike("patchDropped")
    /\ WriteAfterFault(k, Touched(k))
    /\ stale' = [stale EXCEPT ![k] = 0]
    /\ Done(k)
    /\ UNCHANGED <<source, tracked, embed, up, ticker, busy, picks, allow, answer,
                   excused, fired, polled>>

(* The PATCH changed the embed, but its reply was lost. *)
PatchReplyLost(k) ==
    /\ Idle(k)
    /\ Kind(k) # "None" /\ k \in Known
    /\ Strike("replyLost")
    /\ embed' = [embed EXCEPT ![k] = Rebuilt(k)]
    /\ WriteAfterFault(k, Touched(k))
    /\ excused' = excused \cup {k}
    /\ Done(k)
    /\ UNCHANGED <<source, tracked, up, ticker, busy, picks, allow, answer, stale,
                   fired, polled>>

(* mark_edited, then update_stats; or mark_deleted. Once the last of them  *)
(* is done the row tells again what the embed shows; when one fails, the   *)
(* rest is skipped.                                                        *)
MarkEdited(k) ==
    /\ landed = {[key |-> k, step |-> "mark"]}
    /\ row' = [row EXCEPT ![k].edited = TRUE]
    /\ landed' = {[key |-> k, step |-> "stats"]}
    /\ UNCHANGED <<source, tracked, embed, up, ticker, busy, picks, allow, todo,
                   answer, history, faults>>

Save(k, step) ==
    /\ landed = {[key |-> k, step |-> step]}
    /\ row' = [row EXCEPT ![k] =
           IF step = "delete"
           THEN [Touched(k) EXCEPT !.deleted = TRUE]
           ELSE [Touched(k) EXCEPT !.hash = FetchedBody(k),
                                   !.likes = Slot(k).likes,
                                   !.comments = EffectiveComments(k)]]
    /\ excused' = excused \ {k}
    /\ Done(k)
    /\ UNCHANGED <<source, tracked, embed, up, ticker, busy, picks, allow, answer,
                   stale, fired, polled, faults>>

SaveFails(k) ==
    /\ \E l \in landed : l.key = k
    /\ Strike("storeError")
    /\ excused' = excused \cup {k}
    /\ Done(k)
    /\ UNCHANGED <<source, store, embed, up, ticker, busy, picks, allow, answer,
                   stale, fired, polled>>

(* A faulty variant: pruning does not wait for the rows still to apply. *)
PruneEarly ==
    /\ busy /\ landed = {}
    /\ tracked' = {k \in tracked : row[k].age <= Horizon}
    /\ row' = [k \in tracked' |-> row[k]]
    /\ busy' = FALSE /\ allow' = {} /\ answer' = Nothing
    /\ UNCHANGED <<source, embed, up, ticker, picks, todo, landed, history, faults>>

(* The tick ends with Store::prune. *)
Prune ==
    /\ busy /\ picks = {} /\ todo = {}
    /\ tracked' = {k \in tracked : row[k].age <= Horizon}
    /\ row' = [k \in tracked' |-> row[k]]
    /\ busy' = FALSE /\ allow' = {} /\ answer' = Nothing
    /\ UNCHANGED <<source, embed, up, ticker, picks, todo, landed, history, faults>>

PruneFails ==
    /\ busy /\ picks = {} /\ todo = {}
    /\ Strike("pruneError")
    /\ busy' = FALSE /\ allow' = {} /\ answer' = Nothing
    /\ UNCHANGED <<source, store, embed, up, ticker, picks, todo, landed, history>>
-----------------------------------------------------------------------------
(* The worker dies with the process. Its first tick after a restart, which *)
(* fires at once, is skipped.                                              *)
Crash ==
    /\ up /\ up' = FALSE
    /\ Strike("crash")
    /\ busy' = FALSE /\ picks' = {} /\ allow' = {} /\ todo' = {} /\ answer' = Nothing
    /\ landed' = {} /\ owed' = FALSE
    /\ excused' = excused \cup {l.key : l \in landed}
    /\ stale' = [k \in Keys |-> 0]
    /\ UNCHANGED <<source, store, embed, phase, slow, fired, polled>>

Restart ==
    /\ ~up /\ up' = TRUE
    /\ phase' = 0 /\ owed' = FALSE
    /\ UNCHANGED <<source, store, embed, slow, tick, history, faults>>
-----------------------------------------------------------------------------
Apply(k) == \/ Touch(k)
            \/ PatchLands(k) \/ PatchDropped(k) \/ PatchReplyLost(k)
            \/ MarkEdited(k) \/ Save(k, "stats") \/ Save(k, "delete") \/ SaveFails(k)

Working == \/ TickIdle \/ TickStart \/ TickFails
           \/ \E m \in Msgs : Fetch(ChatOf[m])
           \/ \E k \in todo : Apply(k)
           \/ Prune \/ PruneFails

Next ==
    \/ \E m \in Msgs : \/ \E t \in Texts : EditSource(m, t)
                       \/ React(m) \/ Comment(m) \/ DeleteSource(m)
    \/ \E k \in Keys, t \in Texts, live \in BOOLEAN : Record(k, t, live)
    \/ Elapse
    \/ Working
    \/ Crash \/ Restart

Spec == Init /\ [][Next]_vars

(* tokio polls the worker, time passes, systemd restarts the process. *)
FairSpec == Spec /\ WF_vars(Working) /\ WF_vars(Elapse) /\ WF_vars(Restart)
-----------------------------------------------------------------------------
(* "Persist state ONLY once the PATCH landed": between two PATCHes of a    *)
(* key its row says what its embed shows, so diff() sees every difference  *)
(* between the source and Discord. Excused are the keys whose last PATCH   *)
(* reached Discord without the worker, or the store, learning of it.       *)
InStep(k) ==
    /\ row[k].deleted = embed[k].deleted
    /\ row[k].likes = embed[k].likes /\ row[k].comments = embed[k].comments
    /\ ~row[k].deleted => /\ row[k].hash.text = embed[k].body.text
                          /\ row[k].edited = embed[k].edited

RowsTellTheEmbeds ==
    \A k \in tracked \cap Known :
        InStep(k) \/ k \in excused \/ \E l \in landed : l.key = k

(* "edits + deletes - checked every interval_mins for horizon_hours": in   *)
(* untroubled service an edit or a deletion is on Discord within one       *)
(* interval and one tick (plus the time a tick itself takes), counted from *)
(* the last change or the last trouble with Telegram, Discord or relay.db. *)
StaleIsBounded == \A k \in Keys : stale[k] <= Interval + Base + slow

(* A row is asked for at most once per checkpoint its age has reached and  *)
(* once per interval, plus once per fault: each way a row can be handled   *)
(* advances last_checked, or every base tick would poll Telegram for it.   *)
PollingIsPolite ==
    \A k \in tracked : polled[k] <= Cardinality({c \in Checkpoints : c <= row[k].age})
                                      + row[k].age \div Interval + faults

(* What an embed has told stays told: "Once a post has been edited it      *)
(* STAYS edited", save to a tombstone, and a refresh that was told no      *)
(* comment count takes no comments away.  (Comments are only ever added to *)
(* a source here.)  (apply.)                                               *)
EmbedsRemember ==
    [][\A k \in DOMAIN embed \ excused :
          /\ embed[k].edited => embed'[k].edited \/ embed'[k].deleted
          /\ embed'[k].comments >= embed[k].comments]_vars

(* A tombstone is for a message that Telegram said is gone, never for one  *)
(* that could not be asked about.                                          *)
TombstonesAreDeserved ==
    \A k \in DOMAIN embed :
        embed[k].deleted \/ (k \in tracked /\ row[k].deleted) => src[MsgOf[k]].where = "gone"

(* A checkpoint is honoured by the first tick at or after it. (Checked     *)
(* without crashes and failing due() queries and with ticks that take no   *)
(* time: a tick that did not happen, or a touch written after the          *)
(* checkpoint by a tick begun before it, skips it.)                        *)
OnTime(c) == \A k \in tracked : ~row[k].deleted /\ row[k].age >= c + Base => c \in fired[k]

EarlyChecksHappen == OnTime(Early) /\ OnTime(Interval)

(* "each checkpoint fires exactly once as age grows" (refresh.rs:188-189), *)
(* the last of them being reaction_horizon_mins.                           *)
EveryCheckpointFires == \A c \in Checkpoints : OnTime(c)

(* "so the refresh worker (which hashes msg.text()) does not see a         *)
(* spurious edit on its next tick" (main.rs:743-744): only a message whose *)
(* text has changed is shown as edited.                                    *)
NoSpuriousEdit ==
    \A k \in DOMAIN embed : embed[k].edited => Cardinality(had[MsgOf[k]]) > 1

(* "stop updating (and prune) posts older than this": a row past the       *)
(* horizon goes.                                                           *)
OldRowsGo ==
    \A k \in Keys : (k \in tracked /\ row[k].age > Horizon) ~> k \notin tracked
=============================================================================
