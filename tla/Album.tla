------------------------------- MODULE Album -------------------------------
(***************************************************************************)
(* The media lane: handle_update spawns a download for each media message  *)
(* the LRU does not know (src/src/main.rs), at most Permits of them at     *)
(* work; finished items go over a bounded channel back to the run loop,    *)
(* whose AlbumBuffer (src/src/media.rs) holds the siblings of an album     *)
(* until no new one has come for a quiet window; each batch it releases is *)
(* coalesced into one Discord message per webhook by a task of its own     *)
(* (flush_album, deliver_coalesced_media), which checks the store, posts   *)
(* and records webhook after webhook. One life of the process, until it    *)
(* stops.                                                                  *)
(*                                                                         *)
(* An item is an update of the stream: a media message, or an edit of one, *)
(* which classify turns into the same Incoming::Media, so that a message   *)
(* the LRU has forgotten is downloaded again. Anchors, rows and files are  *)
(* of messages. Texts share the LRU; here they are items without targets.  *)
(***************************************************************************)
EXTENDS Dedup, FiniteSetsExt

CONSTANTS
    NumItems,    \* updates Telegram sends
    Msgs,        \* message ids
    MsgOf,       \* [Items -> Msgs]: the message an update is of
    NoGroup,
    GroupOf,     \* [Msgs -> albums \cup {NoGroup}]
    Captioned,   \* items with a caption
    Big,         \* items larger than max_bytes
    Webhooks,
    TargetsOf,   \* [Items -> SUBSET Webhooks], after routing and filters
    Reupload,    \* webhooks whose route re-uploads files; the others get a notice
    OldRows,     \* rows that an earlier life or a backfill may have left
    DedupCap,    \* DEDUP_CAPACITY
    Permits,     \* MAX_CONCURRENT_DOWNLOADS
    ChannelCap,  \* MEDIA_CHANNEL_CAP
    Window,      \* ALBUM_WINDOW
    MaxFaults    \* bound: failed downloads, dropped posts, store errors, prunings

Items == 1..NumItems

ASSUME AlbumAssumption ==
    /\ NumItems \in Nat /\ Msgs \subseteq Nat /\ MsgOf \in [Items -> Msgs]
    /\ Captioned \subseteq Items /\ Big \subseteq Items
    /\ TargetsOf \in [Items -> SUBSET Webhooks]
    /\ Reupload \subseteq Webhooks /\ OldRows \subseteq Msgs \X Webhooks
    /\ DedupCap \in Nat \ {0}
    /\ Permits \in Nat \ {0} /\ ChannelCap \in Nat \ {0}
    /\ Window \in Nat /\ MaxFaults \in Nat

VARIABLES
    stage,     \* "running", "flushing" (a signal came) or "stopped"
    cursor,    \* items the run loop has handled
    lru,       \* Dedup
    waiting,   \* downloads that wait for a permit
    active,    \* downloads at work
    telling,   \* items whose drop notice is being posted
    channel,   \* items on their way back to the loop
    groups,    \* AlbumBuffer: [album -> [items, quiet]]
    batches,   \* batches being delivered
    posts,     \* Discord messages made
    rows,      \* <<anchor, webhook>> recorded in the store
    (* observability *)
    noticed,   \* <<item, webhook>> whose loss was reported
    settled,   \* items the process is done with
    abandoned, \* items a stop of the process cut off
    exposed,   \* <<anchor, webhook>> the store cannot be relied on for
    old,       \* the rows there were at the start
    faults

loop    == <<stage, cursor, lru>>
lane    == <<waiting, active, telling, channel>>
discord == <<posts, rows>>
history == <<noticed, settled, abandoned, old>>
vars == <<stage, cursor, lru, waiting, active, telling, channel, groups, batches, posts,
          rows, noticed, settled, abandoned, exposed, old, faults>>

Albums == {GroupOf[m] : m \in Msgs} \ {NoGroup}
Batch  == [items : SUBSET Items, todo : SUBSET Webhooks, hook : Webhooks \cup {"none"},
           pc : {"check", "post", "record"}, inline : BOOLEAN]
Post   == [hook : Webhooks, anchor : Msgs, items : SUBSET Items, files : SUBSET Msgs]
Row    == Msgs \X Webhooks

MsgsOf(items) == {MsgOf[i] : i \in items}

InChannel == {channel[n] : n \in 1..Len(channel)}
Buffered  == UNION {groups[g].items : g \in DOMAIN groups}
Batched   == UNION {b.items : b \in batches}

(* A file is downloaded when some target wants it and it is not too big.   *)
Wanted(i) == i \notin Big /\ TargetsOf[i] \cap Reupload # {}

(* A download task holds its permit to its end, the drop notice included.  *)
Holding == active \cup {i \in telling : Wanted(i)}

TypeOK ==
    /\ stage \in {"running", "flushing", "stopped"}
    /\ cursor \in 0..NumItems
    /\ lru \in Seq(Msgs) /\ Len(lru) <= DedupCap
    /\ waiting \subseteq Items /\ active \subseteq Items /\ telling \subseteq Items
    /\ Cardinality(Holding) <= Permits
    /\ channel \in Seq(Items) /\ Len(channel) <= ChannelCap
    /\ DOMAIN groups \subseteq Albums
    /\ \A g \in DOMAIN groups :
          groups[g].items \in (SUBSET Items) \ {{}} /\ groups[g].quiet \in 0..Window
    /\ batches \subseteq Batch /\ posts \subseteq Post
    /\ rows \subseteq Row /\ old \subseteq Row /\ exposed \subseteq Row
    /\ noticed \subseteq Items \X Webhooks
    /\ settled \subseteq Items /\ abandoned \subseteq Items
    /\ faults \in 0..MaxFaults

Empty == [g \in {} |-> {}]

(* The store may know some messages already. *)
Init ==
    /\ stage = "running" /\ cursor = 0 /\ lru = <<>>
    /\ waiting = {} /\ active = {} /\ telling = {}
    /\ channel = <<>> /\ groups = Empty /\ batches = {} /\ posts = {}
    /\ rows \in SUBSET OldRows /\ old = rows
    /\ noticed = {} /\ settled = {} /\ abandoned = {} /\ exposed = {}
    /\ faults = 0

Strike == faults < MaxFaults /\ faults' = faults + 1
-----------------------------------------------------------------------------
(* A faulty variant: a full channel loses the item without a word. *)
TrySendSilently(i) == channel' = (IF Len(channel) < ChannelCap THEN Append(channel, i) ELSE channel)
                      /\ UNCHANGED telling

(* media_tx.try_send never blocks; when the channel is full a drop notice  *)
(* is posted and awaited.                                                  *)
TrySend(i) == IF Len(channel) < ChannelCap
              THEN channel' = Append(channel, i) /\ UNCHANGED telling
              ELSE telling' = telling \cup {i} /\ UNCHANGED channel

(* The loop itself awaits the notice for an item that needs no download.   *)
LoopFree == stage = "running" /\ \A i \in telling : Wanted(i)

(* A faulty variant: media that was handled before is handled again. *)
FreshAlways(i) == TargetsOf[i] # {}

(* handle_update goes on with what the LRU does not know and some route    *)
(* wants.                                                                  *)
Fresh(i) == ~Seen(lru, MsgOf[i]) /\ TargetsOf[i] # {}

HandleMedia ==
    /\ LoopFree
    /\ cursor < NumItems /\ cursor' = cursor + 1
    /\ LET i == cursor + 1 IN
       /\ lru' = Touch(lru, MsgOf[i], DedupCap)
       /\ \/ /\ ~Fresh(i)
             /\ UNCHANGED <<waiting, channel, telling>>
          \/ /\ Fresh(i) /\ Wanted(i)
             /\ waiting' = waiting \cup {i}
             /\ UNCHANGED <<channel, telling>>
          \/ /\ Fresh(i) /\ ~Wanted(i)
             /\ TrySend(i)
             /\ UNCHANGED waiting
    /\ UNCHANGED <<stage, active, groups, batches, discord, history, exposed, faults>>

(* A faulty variant: no semaphore. *)
StartDownloadUngated(i) ==
    /\ i \in waiting
    /\ waiting' = waiting \ {i} /\ active' = active \cup {i}
    /\ UNCHANGED <<loop, telling, channel, groups, batches, discord, history, exposed, faults>>

(* The task gets a permit of download_sem. *)
StartDownload(i) ==
    /\ i \in waiting /\ Cardinality(Holding) < Permits
    /\ waiting' = waiting \ {i} /\ active' = active \cup {i}
    /\ UNCHANGED <<loop, telling, channel, groups, batches, discord, history, exposed, faults>>

DownloadDone(i) ==
    /\ i \in active
    /\ active' = active \ {i}
    /\ TrySend(i)
    /\ UNCHANGED <<loop, waiting, groups, batches, discord, history, exposed, faults>>

DownloadFails(i) ==
    /\ i \in active
    /\ Strike
    /\ active' = active \ {i}
    /\ telling' = telling \cup {i}
    /\ UNCHANGED <<loop, waiting, channel, groups, batches, discord, history, exposed>>

(* drop_notice returns: every webhook that was to get item i lost it. *)
Told(i) ==
    /\ i \in telling
    /\ telling' = telling \ {i}
    /\ noticed' = noticed \cup {<<i, w>> : w \in TargetsOf[i]}
    /\ settled' = settled \cup {i}
    /\ UNCHANGED <<loop, waiting, active, channel, groups, batches, discord, abandoned, old,
                   exposed, faults>>
-----------------------------------------------------------------------------
(* coalesce_album *)

(* A faulty variant: the lowest id is the anchor, captioned or not. *)
AnchorLowest(items) == Min(MsgsOf(items))

(* The first item with a caption, in the order of ids, or else the first.  *)
Anchor(items) == IF items \cap Captioned # {} THEN Min(MsgsOf(items \cap Captioned))
                                             ELSE Min(MsgsOf(items))

(* One file a message, however many updates of it the batch has.           *)
FilesFor(items, w) == IF w \in Reupload THEN MsgsOf({i \in items : Wanted(i)}) ELSE {}

(* A faulty variant: everything goes to the first item's targets. *)
NewBatchOfTheFirst(items, inline) ==
    [items |-> items, todo |-> TargetsOf[Min(items)], hook |-> "none",
     pc |-> "check", inline |-> inline]

(* The union of the items' targets gets the batch.                         *)
NewBatch(items, inline) ==
    [items |-> items, todo |-> UNION {TargetsOf[i] : i \in items}, hook |-> "none",
     pc |-> "check", inline |-> inline]

(* The anchors and webhooks of new batches that another one still has to   *)
(* deal with.                                                              *)
Colliding(new) ==
    {r \in Row : \E b \in new, c \in batches :
        /\ Anchor(b.items) = r[1] /\ Anchor(c.items) = r[1]
        /\ r[2] \in b.todo \cap c.todo}

(* flush_album is spawned for each of them.                                *)
Flush(new) == /\ batches' = batches \cup new
              /\ exposed' = exposed \cup Colliding(new)
-----------------------------------------------------------------------------
(* AlbumBuffer *)

(* media_rx.recv and AlbumBuffer::push *)
Receive ==
    /\ LoopFree
    /\ channel # <<>>
    /\ channel' = Tail(channel)
    /\ LET i == Head(channel)
           g == GroupOf[MsgOf[i]]
           held == IF g \in DOMAIN groups THEN groups[g].items ELSE {}
       IN  \/ /\ g = NoGroup
              /\ Flush({NewBatch({i}, FALSE)})
              /\ UNCHANGED groups
           \/ /\ g # NoGroup
              /\ groups' = [q \in DOMAIN groups \cup {g} |->
                              IF q = g THEN [items |-> held \cup {i}, quiet |-> 0]
                                       ELSE groups[q]]
              /\ UNCHANGED <<batches, exposed>>
    /\ UNCHANGED <<loop, waiting, active, telling, discord, history, faults>>

Elapse ==
    /\ \E g \in DOMAIN groups : groups[g].quiet < Window
    /\ groups' = [g \in DOMAIN groups |->
                   IF groups[g].quiet < Window THEN [groups[g] EXCEPT !.quiet = @ + 1]
                                               ELSE groups[g]]
    /\ UNCHANGED <<loop, lane, batches, discord, history, exposed, faults>>

Expired == {g \in DOMAIN groups : groups[g].quiet >= Window}

(* A faulty variant: the batch is released but the group is kept. *)
AlbumTickKeeps ==
    /\ LoopFree
    /\ Expired # {}
    /\ Flush({NewBatch(groups[g].items, FALSE) : g \in Expired})
    /\ groups' = [g \in DOMAIN groups |-> IF g \in Expired THEN [groups[g] EXCEPT !.quiet = 0]
                                                           ELSE groups[g]]
    /\ UNCHANGED <<loop, lane, discord, history, faults>>

(* media_tick releases every group whose window has passed. *)
AlbumTick ==
    /\ LoopFree
    /\ Expired # {}
    /\ Flush({NewBatch(groups[g].items, FALSE) : g \in Expired})
    /\ groups' = [g \in DOMAIN groups \ Expired |-> groups[g]]
    /\ UNCHANGED <<loop, lane, discord, history, faults>>
-----------------------------------------------------------------------------
(* deliver_coalesced_media *)

(* Batch b is done with webhook w: the next one, or the end. *)
Advance(b, w) ==
    LET rest == b.todo \ {w} IN
    IF rest = {} THEN /\ batches' = batches \ {b}
                      /\ settled' = settled \cup b.items
                 ELSE /\ batches' = (batches \ {b}) \cup
                             {[b EXCEPT !.todo = rest, !.hook = "none", !.pc = "check"]}
                      /\ UNCHANGED settled

(* It goes on to post on w. *)
Turn(b, w) == /\ batches' = (batches \ {b}) \cup {[b EXCEPT !.hook = w, !.pc = "post"]}
              /\ UNCHANGED settled

(* A faulty variant: the media lane does not ask the store. *)
CheckStoreSkipped(b, w) ==
    /\ b.pc = "check" /\ w \in b.todo
    /\ Turn(b, w)
    /\ UNCHANGED <<loop, lane, groups, discord, noticed, abandoned, old, exposed, faults>>

CheckStore(b, w) ==
    /\ b.pc = "check" /\ w \in b.todo
    /\ \/ <<Anchor(b.items), w>> \in rows /\ Advance(b, w)
       \/ <<Anchor(b.items), w>> \notin rows /\ Turn(b, w)
    /\ UNCHANGED <<loop, lane, groups, discord, noticed, abandoned, old, exposed, faults>>

(* "media dedup check failed; posting anyway" *)
CheckError(b, w) ==
    /\ b.pc = "check" /\ w \in b.todo
    /\ Strike
    /\ Turn(b, w)
    /\ exposed' = exposed \cup {<<Anchor(b.items), w>>}
    /\ UNCHANGED <<loop, lane, groups, discord, noticed, abandoned, old>>

PostDelivered(b) ==
    /\ b.pc = "post"
    /\ posts' = posts \cup {[hook |-> b.hook, anchor |-> Anchor(b.items), items |-> b.items,
                             files |-> FilesFor(b.items, b.hook)]}
    /\ batches' = (batches \ {b}) \cup {[b EXCEPT !.pc = "record"]}
    /\ UNCHANGED <<loop, lane, groups, rows, history, exposed, faults>>

PostDropped(b) ==
    /\ b.pc = "post"
    /\ Strike
    /\ noticed' = noticed \cup {<<i, b.hook>> : i \in b.items}
    /\ Advance(b, b.hook)
    /\ UNCHANGED <<loop, lane, groups, discord, abandoned, old, exposed>>

RecordRow(b) ==
    /\ b.pc = "record"
    /\ rows' = rows \cup {<<Anchor(b.items), b.hook>>}
    /\ Advance(b, b.hook)
    /\ UNCHANGED <<loop, lane, groups, posts, noticed, abandoned, old, exposed, faults>>

(* "failed to record relayed media": the error is only logged. *)
RecordError(b) ==
    /\ b.pc = "record"
    /\ Strike
    /\ exposed' = exposed \cup {<<Anchor(b.items), b.hook>>}
    /\ Advance(b, b.hook)
    /\ UNCHANGED <<loop, lane, groups, discord, noticed, abandoned, old>>

(* The refresh worker prunes a row older than the horizon. *)
Prune(r) ==
    /\ stage # "stopped"
    /\ Strike
    /\ rows' = rows \ {r}
    /\ exposed' = exposed \cup {r}
    /\ UNCHANGED <<loop, lane, groups, batches, posts, history>>
-----------------------------------------------------------------------------
(* A faulty variant: the albums in their quiet window are not flushed. *)
SignalWithoutFlush ==
    /\ LoopFree
    /\ stage' = "flushing"
    /\ UNCHANGED <<cursor, lru, lane, groups, batches, discord, history, exposed, faults>>

(* SIGTERM or SIGINT: the loop ends; flush_all, then each album in turn is *)
(* delivered before `run` returns. Nothing else is waited for.             *)
Signal ==
    /\ LoopFree
    /\ stage' = "flushing"
    /\ Flush({NewBatch(groups[g].items, TRUE) : g \in DOMAIN groups})
    /\ groups' = Empty
    /\ UNCHANGED <<cursor, lru, lane, discord, history, faults>>

Exit ==
    /\ stage = "flushing"
    /\ ~\E b \in batches : b.inline
    /\ stage' = "stopped"
    /\ abandoned' = waiting \cup active \cup telling \cup InChannel \cup Buffered \cup Batched
    /\ waiting' = {} /\ active' = {} /\ telling' = {} /\ channel' = <<>>
    /\ groups' = Empty /\ batches' = {}
    /\ UNCHANGED <<cursor, lru, discord, noticed, settled, old, exposed, faults>>
-----------------------------------------------------------------------------
Deliver(b) == \/ \E w \in Webhooks : CheckStore(b, w) \/ CheckError(b, w)
              \/ PostDelivered(b) \/ PostDropped(b)
              \/ RecordRow(b) \/ RecordError(b)

Next ==
    \/ HandleMedia
    \/ \E i \in Items : StartDownload(i) \/ DownloadDone(i) \/ DownloadFails(i) \/ Told(i)
    \/ Receive \/ Elapse \/ AlbumTick
    \/ \E b \in batches : Deliver(b)
    \/ \E r \in rows : Prune(r)
    \/ Signal \/ Exit

Spec == Init /\ [][Next]_vars

(* tokio runs every task, downloads and notices end, time passes. That a   *)
(* download ends is taken for granted: download_media has no timeout.      *)
FairSpec ==
    /\ Spec
    /\ WF_vars(HandleMedia) /\ WF_vars(Receive) /\ WF_vars(Elapse)
    /\ WF_vars(AlbumTick) /\ WF_vars(Exit)
    /\ WF_vars(\E i \in Items : StartDownload(i))
    /\ WF_vars(\E i \in Items : DownloadDone(i) \/ DownloadFails(i))
    /\ WF_vars(\E i \in Items : Told(i))
    /\ WF_vars(\E b \in batches : Deliver(b))
-----------------------------------------------------------------------------
(* The items the loop has to deal with: some webhook is to get them, and   *)
(* since the last update of their message, if there was one, more messages *)
(* were heard of than the LRU holds.                                       *)
Owed == {i \in 1..cursor : TargetsOf[i] # {} /\ News(MsgOf, i, DedupCap)}

(* Each of them, and nothing else, is in exactly one place on its way:     *)
(* none falls between download, channel, buffer and batch, none is in two  *)
(* of them, and the LRU turns none away.                                   *)
Places == <<waiting, active, telling, InChannel, Buffered, Batched, settled, abandoned>>

EveryItemHasItsPlace ==
    /\ Owed = UNION {Places[n] : n \in 1..Len(Places)}
    /\ \A n, k \in 1..Len(Places) : n # k => Places[n] \cap Places[k] = {}
    /\ \A b, c \in batches : b.items \cap c.items # {} => b = c

(* Two messages a batch may be found in the store under.                   *)
Kin(m, n) == m = n \/ (GroupOf[m] = GroupOf[n] /\ GroupOf[n] # NoGroup)

(* Item i is shown on webhook w, with its file where it is to be.          *)
Shown(i, w) == \E p \in posts :
    /\ p.hook = w /\ i \in p.items
    /\ w \in Reupload /\ Wanted(i) => MsgOf[i] \in p.files

(* The store knew its message or a sibling before it came: from the start, *)
(* or because an update of that one was let in again after a burst.        *)
Known(i, w) == \E m \in Msgs :
    /\ Kin(m, MsgOf[i])
    /\ \/ <<m, w>> \in old
       \/ /\ \E p \in posts : p.hook = w /\ p.anchor = m /\ i \notin p.items
          /\ \E j, k \in Owed : j # k /\ MsgOf[j] = m /\ MsgOf[k] = m

(* What the process is done with was shown on every webhook that was to    *)
(* get it, or its loss there was reported, or the store knew its batch     *)
(* from before.                                                            *)
SettledIsAnswered ==
    \A i \in settled : \A w \in TargetsOf[i] : Shown(i, w) \/ <<i, w>> \in noticed \/ Known(i, w)

(* A photo is on a webhook in two messages only when a burst larger than   *)
(* the LRU came between two updates of it: neither a failure, nor a late   *)
(* sibling, nor a stop shows one update twice (handle_update, flush_album).*)
RepeatsNeedABurst ==
    \A p, q \in posts : p.hook = q.hook /\ p # q =>
        \A j \in p.items, k \in q.items : MsgOf[j] = MsgOf[k] =>
            /\ j # k
            /\ j < k => Cardinality(Burst(MsgOf, j, k - 1)) > DedupCap

(* And then the store still keeps two messages of one anchor off a webhook,*)
(* unless it could not be read or written, the row was pruned, or two      *)
(* batches were at it at once (deliver_coalesced_media).                   *)
AnchorsRepeatExposed ==
    \A p, q \in posts : p.hook = q.hook /\ p.anchor = q.anchor /\ p # q =>
        <<p.anchor, p.hook>> \in exposed

(* A row made in this life stands for a message that webhook got, and names *)
(* a message of it the refresh worker can compare: the worker fetches the  *)
(* anchor and hashes its text, so the anchor is one with a caption when    *)
(* there is one.                                                           *)
RowsTellThePosts ==
    \A r \in rows \ old : \E p \in posts :
        /\ p.hook = r[2] /\ p.anchor = r[1] /\ r[1] \in MsgsOf(p.items)
        /\ p.items \cap Captioned # {} => r[1] \in MsgsOf(p.items \cap Captioned)

(* "so they are delivered rather than dropped on shutdown": what the album *)
(* buffer held when the signal came is delivered before the process ends.  *)
OwedAtShutdown == Buffered \cup UNION {b.items : b \in {c \in batches : c.inline}}

BufferedAreNotAbandoned ==
    [][stage' = "stopped" => OwedAtShutdown \cap abandoned' = {}]_vars

(* Every item that is owed is dealt with in the end, or cut off by a stop. *)
MediaSettles == <>[](Owed \subseteq settled \cup abandoned)

(* "every webhook any matching route selected gets the album exactly once" *)
(* (main.rs:1531-1532).                                                    *)
AlbumOnce ==
    \A p, q \in posts :
        p.hook = q.hook /\ (\E i \in p.items, k \in q.items : Kin(MsgOf[i], MsgOf[k])) => p = q
=============================================================================
