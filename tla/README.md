# telegram-relay: a verification development

telegram-relay is a daemon that follows Telegram chats and shows their messages
on Discord through webhooks. It remembers every Discord message it made in an
SQLite file, and a worker keeps those messages up to date for two days. This
directory holds TLA+ models of the relay, TLC runs over small instances of them,
and TLAPS proofs of the safety properties for all values of the constants. All
references such as `main.rs:1479` are to `src/src/`.

## 1. The system and its parts

| part | code | state | operations | modelled in |
|---|---|---|---|---|
| text lane | `main.rs` `run`, `handle_update`, `spawn_embed`; `router.rs`, `dedup.rs` | position in the update stream, LRU of seen messages, spawned tasks | handle an update; check store, post, record | `Relay` |
| backfill command | `main.rs` `backfill` | messages fetched, counters; a process of its own | fetch the last N, then check, post, record one by one | `Relay` |
| store | `store.rs` | table `relayed` (key: chat, message, Discord id) and webhook identities | record, already_relayed, due, update_stats, touch_checked, mark_edited, mark_deleted, prune | `Relay` (who is recorded), `Refresh` (what a row says) |
| refresh worker | `refresh.rs` | nothing between ticks; a snapshot of rows within one | tick: due, fetch, diff, PATCH, save, prune | `Refresh` |
| deliverer | `deliver.rs` | counters of one call | POST with retries, PATCH | `Deliver` |
| media lane | `main.rs`, `media.rs` | download tasks, semaphore, channel, album buffer, batches | download, send to the loop, buffer, release, coalesce, deliver | `Album` |
| supervision | `main.rs` `run` | time of the last update, failed probes | start, probe, arms of `select!`, notices before the end, graceful stop | `Supervisor`; `Relay` (`Crash`, `Shutdown`) and `Album` (`Signal`, `Exit`) take from it that the process may end |
| hot reload | `main.rs` `reload`, `config.rs` `load`, `telegram.rs` `resolve_routes` | `Live` snapshot of routes and webhooks, `last_mtime` | load, resolve, swap | `HotReload` |
| webhook identities | `main.rs` `sync_webhook_identities` | hash per webhook in the store | PATCH the webhook if changed, save the hash | `WebhookIdentity` |
| ops notices | `main.rs` `Ops` | time of the last drop notice | post, at most one drop notice a minute | `Notices`; elsewhere the sets `noticed` and `told` |
| embeds with media | `render.rs`, `main.rs` `coalesce_album`, `deliver.rs` `parse_delivered_media_urls`, `refresh.rs` `reattach_stored_media` | names of files, the urls in a row | split a text, place images, keep and re-attach media | `Embeds` |
| configuration | `config.rs` | none | parse, validate | `HotReload` has the conditions under which a file loads; its values are CONSTANTS |
| other rendering, CLI, reports | `render.rs`, `cli.rs` | none | format, print | not modelled: pure data |

How they interact. The run loop is one task: a `select!` over signals, the death
of the Telegram sender pool, the update stream, a liveness probe, finished
downloads, the album tick and the reload tick. It never awaits a delivery; it
spawns one task per (message, webhook), per download and per released album.
All tasks share the store through a mutex held for one SQL statement only, so
no two calls to it are one step. The refresh worker is another task; backfill is
another process on the same file. When the process dies, every task dies with
it; systemd starts it again (`deploy/telegram-relay.service`, `Restart=always`)
and Telegram replays the updates since the position saved in the session file.

What is hard in it: the check of the store and the record in it are on two sides
of an HTTP call; an HTTP call that failed may have worked; the process may die
at any await; the same update may come twice; the source of a post changes while
the worker is patching it; album siblings download at different speeds; queues,
permits and the LRU are finite. `PROJECT.json` lists these as hazards, each at
its line, with the properties that cover it.

What makes each part correct:
* delivery — nothing is posted where no route wants it; nothing is posted twice
  without one of a short list of excuses; nothing wanted vanishes silently;
  every Discord message is accounted for;
* refresh — a row says what its embed shows; edits and deletions arrive in time;
  Telegram is not polled more often than the cadence; no tombstone for a message
  that exists; marks and counts are not lost;
* deliverer — a post ends, and tells the truth about the message it made;
* media — every item has exactly one place on its way, ends up shown or
  reported, is repeated only after the LRU forgot it, and a graceful stop delivers
  what is buffered;
* embeds — a refresh loses no file and keeps the images in order;
* supervision — a dead connection ends the process in bounded time, a quiet one
  does not, and neither a lost pool nor a lost session can leave it up;
* hot reload — a snapshot is consistent in itself, and one that is not what the
  file says has a reason;
* identities — the stored hash tells what the webhook shows, and restarts alone
  send nothing;
* notices — no flood, and no lasting silence.

## 2. Modules

| module | what it is |
|---|---|
| `Relay` | text lane, backfill, the store as a set of Discord ids, crash, stop, restart, prune |
| `DeliveryPromise` | what delivery promises for each (message, webhook), implemented by `Relay` |
| `Refresh` | refresh worker, the contents of rows and embeds, time |
| `Deliver` | one HTTP call of the deliverer |
| `Dedup` | the LRU of `dedup.rs`, for `Relay` and `Album`, and what it is for, said without it (`News`) |
| `PostPromise` | one post as `Relay` and `Album` take it to be, implemented by `Deliver` |
| `Embeds` | a message with media from its album to its last refresh |
| `Notices` | the callers of `drop_notice` and its one slot a minute |
| `WebhookIdentity` | `sync_webhook_identities` over any number of starts |
| `Album` | media lane, one life of the process |
| `Supervisor` | the life of the process under systemd, with its loop and its probe |
| `HotReload` | the configuration file and what the process makes of it |
| `MCRelay`, `MCRefresh`, `MCAlbum` | values of function-valued constants for TLC |
| `MCDeliver` | `Deliver`, `Notices`, `WebhookIdentity` and `Embeds` side by side for TLC |
| `MCProcess` | `Supervisor` and `HotReload` side by side for TLC |
| `RelayProofs`, `RefreshProofs`, `AlbumProofs`, `EmbedsProofs`, `WebhookIdentityProofs` | theorems about the module each is named after |
| `DeliverProofs` | theorems about `Deliver` and `Notices` |
| `ProcessProofs` | theorems about `Supervisor` and `HotReload` |
| `DataLemmas` | induction over numbers, folds, sums of sequences and enumerations, for `DeliverProofs` and `EmbedsProofs`; facts about the LRU, for `RelayProofs` and `AlbumProofs` |

`MCDeliver` and `MCProcess` add a variable `lane`, set in the initial state: a
behaviour is of one lane, whose module takes all its steps, while the others keep
their initial state. The modules in them share no state in the code either; they
are run together because each instance is small.

In each component module the operators called "a faulty variant" are the
definition after them with a plausible mistake. They are not part of any
specification. Substituting one for its original makes the property it is
paired with in `PROJECT.json` ("mutants") fail, which shows that the property is
sensitive to the code it is about.

### Relay

State. `log` is the update stream, `cursor` how far the loop is in it, `synced` the
position the session file holds. `lru` is the cache of `Dedup`. A member of `jobs`
is a spawned `spawn_embed` task, or the current iteration of a backfill, with a
program counter: `check` (before `already_relayed`), `post` (in `post_embed`),
`record` (before `store.record`). `rows` holds the ids of the Discord messages in
`relayed`. `copies` is Discord: how many messages show a pair; the n-th one of pair
(m, w) has the id (m, w, n).

Actions. `HandleUpdate` is the whole of `handle_update` for a text: LRU, routes,
filters, the `seen` set, the spawns. `CheckStore`, `PostDelivered`, `RecordRow`
are the three steps of a delivery, `CheckError`, `PostLostReply`, `PostDropped`,
`RecordError` their failures. `PostLostReply` is a Discord message made by a
request the relay takes for failed: `send_json_capture` sends it again.
`Crash` is any end of the process that does not go through the signal arms,
`Shutdown` the graceful one, which saves the stream position without waiting for
the tasks (`main.rs:1178-1193`). `SyncState` is grammers saving the position on
its own. `BackfillStart` fetches the newest messages and applies the filter,
`BackfillNext` begins the next delivery. `HorizonPasses` makes the rows old,
`Prune` is `Store::prune`, reached only when some row is young (`refresh.rs:337`).

Abstractions. A body is a member of `Bodies`, a filter the set of bodies it lets
through. Telegram emits each message of a chat in id order and replays from the
saved position. Time is only the division of rows into young and aged; the
horizon of 48 hours is taken to be longer than any delivery.

What is wanted. An update is *news* when it is the first of its message, or when
more messages than the LRU holds were heard of since the last one: `News` says
so of the stream alone. `WantedIsInHand` and `WantedIsAnswered` are about every
update that is news and that a filter lets through, so an edit that the LRU is
bound to have forgotten must be taken up; an edit it may remember is dropped by
the code's design (`main.rs:1251`) and nothing is said of it. One excuse is left,
`abandoned`: a task that was cut off by the end of the process before its record,
when the position saved is past its update, so that no replay brings it back. A
graceful stop makes such tasks, since it saves the position and awaits none
(`main.rs:1190`); a crash makes them only when grammers had saved the position by
itself. That loss is what the code does, so these properties do not object to it;
they say that there is no other.

### Refresh

State. `src` is Telegram's present version of a message, `embed` what Discord
shows, `row` what the store says, with `age` for now − `posted_at` and `checked`
for `last_checked` − `posted_at`. `picks`, `allow`, `todo` and `answer` are the
locals of `tick_once`; `landed` is the window between a successful PATCH and the
writes that follow it (`mark_edited`, then `update_stats`; or `mark_deleted`).

Actions. `TickStart` is `due()` and `decide_refresh`, `TickIdle` the early return,
`TickFails` the one when the query fails (`refresh.rs:336`), `Fetch` one chat's
batches, `Touch`, `PatchLands`, `PatchDropped`, `PatchReplyLost` the outcomes of
`apply`, `MarkEdited`, `Save`, `SaveFails` the writes, `Prune` the end and
`PruneFails` the end with an error (`refresh.rs:431`). `Elapse` moves time while the
worker sleeps, and at most `MaxSlow` times while it works. `Record` is delivery:
live (hashing the body with its media notice, no counts) or backfill (hashing the
text alone).

Abstractions. Texts stand for their hashes. Reactions and comments are counts of
0 or 1. Ages stop at `Horizon + 1`. `stale` measures how long a key has been out
of date in untroubled service: it restarts when the source changes, when
Telegram or Discord refuses, when the store fails, and when the process is down.

Of two properties the text is worth a word. `RowsTellTheEmbeds` excuses a key
whose PATCH is landed and not saved (`landed`) and one whose PATCH had a fate the
worker did not learn (`excused`). `EmbedsRemember` is about steps: none takes the
edited mark off a post, except to make it a tombstone, nor a comment count away
from a post whose row is in step. It is what the row's `edited` mark in the
rebuilt embed is for, and `effective_comments`, which falls back on the stored
count when Telegram gives none.

### Deliver

One post (`send_json_capture`, and the same loop in `post_media_embed`) or one
patch (`patch_embed`, `patch_webhook`). Every failing request may have taken
effect, except a 429 and a refusal. Waits are whole units. A patch honours one
429, whatever it asks to wait; `PatchIsBrief` says what that can cost the tick or
the start that waits for it.

### Embeds

State. `source` is what the message is rendered from, `embeds` what it looks
like, `attached` the files Discord holds for it, `stored` the urls of its row.
`PostAlbum` names the files (`coalesce_album`, `disambiguate_filename`), splits
the text, puts the images into embeds and keeps the urls of Discord's answer,
which may or may not list the files that embeds show. `PatchAlbum` is every
refresh, edit and deletion: the message is built anew from the source and from
`stored`, and Discord deletes the files the PATCH does not list.

Abstractions. A text is its length, a name a stem and what was appended.
`attachment://name` resolves to the first file of that name (external).

### Notices

A caller of `drop_notice` is `working`, has the slot (`slotted`) or is `posting`.
`Admit` takes the slot under the lock, `Swallow` returns because the minute is
not over, `Post`, `Heard` and `Unheard` are the post after the lock is released.
`NewProcess` is a restart, with a free slot. A post may outlast the minute.

### WebhookIdentity

`hop` runs through the (route, webhook) pairs in the order of the file. A start
looks the channels up one after the other (`Lookup`): each may fail, may give no
photo, and may change before or after its turn; `Begin` is the start of the sync
with what was found. In the code it is the routes that are looked up; in the model
the routes of one channel share the outcome of one lookup, so a channel whose second
route fails after its first resolved is not met. `PassBy` skips a pair whose channel
did not resolve or whose webhook is `claimed`, `UpToDate` compares the hash,
`PatchWebhook` and `RecordHash` are the two halves of a sync, `WebhookDropped`,
`RecordHashFails` and `Leave` what can go wrong. A hash is the identity it is the
hash of. A PATCH without a photo leaves the webhook's old one. `torn` names the
webhooks whose last PATCH was not followed by its record.

### Album

State. An item is an update: a media message, or an edit of one, which `classify`
makes the same `Incoming::Media` (`telegram.rs:620-623`). `MsgOf` is the message an
item is of; anchors, rows and files are of messages. `lru` is the one cache
that texts and media share (`main.rs:1251`); a text is an item without targets.
`waiting` and `active` are download tasks before and after they got one of the
permits, `telling` items whose drop notice is being awaited, by their task, which
keeps its permit meanwhile (`Holding`), or by the loop, which does nothing else
meanwhile (`LoopFree`). `channel` is the queue to the loop, `groups` the
`AlbumBuffer` (with the time since the last sibling), `batches` the tasks of
`flush_album`, `inline` ones being those the graceful stop awaits. `rows` are
keyed as the code keys them: by anchor and webhook. `Init` lets the store know one
row already.

Actions. `HandleMedia` (LRU, routes, then a download task or a file-less item),
`StartDownload`, `DownloadDone`, `DownloadFails`, `Told` (a drop notice returns),
`Receive` (`push`), `AlbumTick` (every expired group), then per webhook
`CheckStore`, `PostDelivered` or `PostDropped`, `RecordRow`, with the two store
errors; `Prune` is the refresh worker's. `Signal` and `Exit` are the graceful stop.
The flushed albums share no state, so their deliveries may interleave in the model
though the code takes them one by one.

What is said of repetitions. Once the LRU has forgotten a photo, an edit of it is
downloaded and delivered again. If the new batch has the anchor of the old one, the
store knows it, and `AnchorsRepeatExposed` says that it keeps the second message
away unless it could not be relied on (`exposed`: a failed check or record, a pruned
row, two batches of one anchor at once). If it has another anchor, as the edit of a
captionless sibling of a captioned photo has, there is no row and the photo is
posted a second time on the same webhook. That is what the code does; section 3
lists it. `RepeatsNeedABurst` says that it is the only way: the two messages show
two updates of the photo, between which more messages were heard of than the LRU
holds. Neither failures, late siblings nor a stop repeat anything.

`SettledIsAnswered` has an excuse too, `Known`: an item is skipped when the store
knew its batch's anchor, from before this life or from an earlier update of that
anchor. That the skipped siblings were not all shown is not objected to.

### Supervisor

State. `phase` is where the one task of the loop is; while it is `handling`,
`probing` or `telling` no arm runs. `silence` is `last_update.elapsed()`,
`failures` the count of failed probes, `clock` and `due` the `liveness_tick`
interval, `signalled` a SIGTERM the loop has not taken. `link`, `pool` and
`discord` are the outside.

Actions. `Start` to `Greeted` are the start of the process, with what it does
when Telegram does not answer; each arm of `select!` is an action
(`SignalArm`, `PoolArm`, `UpdateArm`, `StreamErrorArm`, `ReloadArm`, `ProbeArm`);
`ProbeAnswered`, `ProbeFailed` and `ProbeRefused` are the outcomes of `get_me`
(any error but one of authorization is a failure, also an RPC error from a Telegram
that is in service),
`Told` the end after a notice; `FarewellEnds`, `Flushed` and `Synced` the graceful
stop. `StopTimesOut` is systemd's patience, `Kill` any other end. `Elapse` is a
unit of time: an idle loop takes a ready arm first, a handler and a notice take
no longer than their bounds, a probe as long as it likes, since `get_me` has no
timeout.

### HotReload

State. `file` and `mtime` are the operator's, `config` what was loaded last, `seen`
is `last_mtime`, `live` the snapshot, `told` the routes that notices named as left
out. `early` and `refused` record two reasons for which `live` may lag.

Actions. `Load`, `ResolveStart`, `Settle` are a start: the file is read before
its time is. `ReloadTick`, `ReloadRead` or `ReloadRejected`, `Swap` or `SwapFails`
are a reload, each an await of its own; `Edit` may come anywhere. `Loadable` is
`Config::load` as a condition on the file (destinations that exist, the variables of
the webhooks and of the ops webhook, sound values), `Resolutions` and `Resolves` are
`resolve_routes`: a route by id needs no lookup, a route by name may fail, and the
whole fails only if nothing is left.

Abstraction. Two edits have two times of modification.

## 3. What is checked

| run | instance | shows |
|---|---|---|
| `relay_stream` | 2 messages of 2 chats, 3 updates, 1 webhook, 3 routes to it, LRU of 1, 2 faults of 8 kinds | types, accounting, repetitions are excused, refinement of `DeliveryPromise`, what is news and wanted is in hand until it is answered, and is answered; two tasks for one pair only after a burst |
| `relay_backfill` | 2 messages of one chat with 2 routes, 2 updates, LRU of 2, one backfill, 2 faults | repetitions are excused with a second process and pruning |
| `relay_overlap` | 1 update, 1 backfill, no fault | finding: posted twice |
| `refresh_sync` | 1 key, 3 source changes, 2 faults of 7 kinds | rows, embeds and sources stay in step; bounds on staleness and polling; tombstones only for the deleted; marks and comments stay |
| `refresh_cadence` | 2 keys, one of an unknown webhook, tick of 2 units, 1 fault of 3 kinds | the early and interval checkpoints are met |
| `refresh_checkpoint`, `refresh_notice`, `refresh_prune` | 1 key, no fault | findings |
| `deliver`, call | 3 backoffs, waits of 0, 1, 2 and 7, a budget of 6, 5 rate limits | posts and patches are bounded and truthful; refinement of `PostPromise` |
| `deliver`, notices | 3 callers, a gap of 4, posts of up to 6 | one notice a minute; drops are heard of |
| `deliver`, identity | 2 channels, 2 webhooks, one shared by 2 routes, 2 renames, 2 mishaps | the hash tells the truth, the first route names, restarts are quiet |
| `deliver`, message | 6 albums of up to 5 files, texts of up to 4 pieces, 3 embeds | files stay, images stay in order |
| `album` | an album of 2, a big single item, an edit of each photo, LRU of 1, 2 webhooks, 1 permit, channel of 1, 1 fault | media is not lost, repeated only after a burst, and with one anchor only if the store failed; a stop flushes the buffer; all of it settles |
| `album_split` | an album of 2, no fault | finding: an album is split |
| `process`, process | an interval of 2, 3 attempts, handlers of up to 2 units, 2 faults | loss is real, an outage is bounded, a lost pool or session ends the process |
| `process`, reload | 6 files, 3 edits, 2 failed lookups | lag is excused, edits take effect |

Why the bounds are enough for the cases that matter. Three updates are enough for a
message, its edit and one that evicts it from an LRU of one entry; two faults for a
crash in the middle of a delivery and another before the replay is through; two
routes on one webhook exercise the `seen` set. One backfill suffices because a
second one is to the first what the first is to a live task. In `refresh_sync` three
changes are an edit, its reversal and a deletion, and the horizon is past all
checkpoints and two more intervals, so that a cadence that stopped would be seen to
miss its bound. In `album` the channel and the permits are at their limits with two
items; the second update of the captioned photo comes while the LRU knows it, that
of the captionless one after it was forgotten, so both outcomes of an edit are met,
and the repetition described under Album is among the behaviours. In `deliver` a
post of a notice outlasts the gap, so that a second caller is admitted while the
first still posts; the albums hold a video between photos, repeated names, more
images than there is room for, and a name that another one is changed to; two
renames let a channel return to what the hash of an earlier start says. In `process`
a handler lasts as long as the probe interval, so that a tick is late and the next
one early; the six files are the usual one, one with more routes, one with a moved
webhook, one whose variable is not set, one whose ops webhook's variable is not and
one with a typing error, so that every way of being refused is met. `CHECK_DEADLOCK
FALSE` is set everywhere: an instance ends when its log, its changes or its call is
used up, or when the process has stopped.

Fairness. `Relay`: the loop takes the next update (the `select!` is polled
for as long as the process runs), every task with a step to take gets it (tokio;
the HTTP client answers or errs), and the process is restarted
(`Restart=always`). `Refresh`: the worker is polled, time passes, the process is
restarted; only `refresh_prune` needs it, the other properties are safety.
`Album`: every task, the loop and the clock; that a download ends is an
assumption, for `download_media` has no timeout (`main.rs:1919-1935`), and one that
hangs would keep its permit for ever. `Supervisor`:
tokio's `select!` polls its arms in random order, so an arm that is ready again
and again is taken (strong fairness of the arms and of time, which the busy loop
disables in between); whatever is awaited ends, except `get_me`, which has no
timeout and of which only a request to an ended pool or with a revoked session is
taken to be answered; systemd restarts the unit and enforces its stop timeout.
`HotReload`: the loop's five-second tick and its awaits. `Notices`: posts end and
time goes on; that drops go on too is the premise of the property and stated as
fairness of `Admit`. Nothing is assumed of users, the operator, Telegram's or
Discord's goodwill, and no fault is fair. The bounds of `Refresh` are safety: they
count time, and need no fairness.

### Findings

Each is a run that finds a statement of the documentation violated.

1. `relay_overlap`: the store check does not make live relay and backfill
   exclusive. Both look before either has recorded. `main.rs:1478`: "so an
   overlapping message is never posted twice". The same repetition follows from a
   crash between Discord's answer and `store.record`, a lost reply, an unreadable
   store, or a backfill of a message whose row was pruned: `Exposed` lists them,
   and `RepeatsAreExposed` says that there is no other way.
2. `refresh_checkpoint`: the checkpoint at `reaction_horizon_mins` fires only if
   a tick finds the post at exactly that age (`refresh.rs:206-209`), though
   "each checkpoint fires exactly once as age grows".
3. `refresh_notice`: a live post with a media notice (poll, location, unsupported
   medium) is hashed with the notice and compared without it. Its first refresh
   marks it as edited and takes the notice away.
4. `refresh_prune`: with nothing due, a tick returns before the prune, so the
   last rows of a quiet relay stay.
5. `album_split`: the quiet window is measured from download to download, so a
   slow sibling becomes a second message.

Seen while modelling and not stated as runs:

* a PATCH whose reply was lost, followed by a return of the source to its former
  state, leaves the embed wrong until the next change (`refresh.rs:536` guards
  the other direction only);
* the media notice of a post that could not show its file ("[media]", "too
  large") is gone after its first refresh, which renders the text alone;
* the comment "Peak media memory ~= permits * max_bytes" (`main.rs:1400`) does not
  count the items in the channel, the buffer and the batches;
* a graceful stop saves a stream position past messages whose deliveries it cuts
  off, and its broadcast and flush together can outlast systemd's stop timeout;
* an edit of a message whose first version was filtered out is dropped as a
  duplicate while the LRU remembers it;
* an album whose anchor an earlier life recorded is skipped even if that life
  showed only part of it;
* an edit of a photo whose message the LRU has forgotten is downloaded and delivered
  again (`telegram.rs:620-623`). When the photo is not its album's anchor there is
  no row for it, and the webhook gets it twice, though `main.rs:1530` and
  `main.rs:1612` say "each physical photo uploaded once";
* `disambiguate_filename` can itself make a name that another file has (a file
  called `a_3.jpg` before two called `a.jpg`, the second of id 3), though
  `main.rs:1616-1618` says that the names are then unique;
* the refresh worker keeps the webhooks, peers and colours of the start
  (`main.rs:1004`), so a row of a webhook added by hot reload is tombstoned
  without its embed being changed;
* an edit of the file while the process starts, after it was loaded and before
  its time was taken (`main.rs:1048`), is not seen until the next edit;
* a channel that loses its photo keeps the old avatar on its webhook, and a
  webhook whose PATCH took effect and was called dropped keeps a look that its
  hash does not tell;
* a revoked session ends the process with an error at each start, and systemd starts
  it again without limit, though `main.rs:907-909` means it to "stop rather than
  loop uselessly";
* losses within a minute of a drop notice are told to nobody.

## 4. What is proved

Each proof module holds for all values of the constants under the one assumption
of its component's module (`RelayAssumption`, `RefreshAssumption`, ...), which
states types and a few inequalities that the code's own constants meet: an LRU of
at least one entry, at least one permit, a base tick longer than zero, and so on.
Nothing else is assumed, not even that messages, posts or files are finitely many,
unless the table says so.

| module | theorem | states |
|---|---|---|
| `RelayProofs` | `TypeCorrect` | `TypeOK` always |
| | `AccountedAlways` | `Accounted` always |
| | `UnexposedIsSingleAlways` | `UnexposedIsSingle` always |
| | `RepeatsAreExposedAlways` | `RepeatsAreExposed` always |
| | `WantedIsInHandAlways` | `WantedIsInHand` always |
| | `OverlapNeedsABurstAlways` | `OverlapNeedsABurst` always |
| | `NoLiveOverlapAlways` | `NoLiveOverlap` always, if `Msgs` is finite and `DedupCap` is at least their number |
| | `PromiseKept` | `Relay` implements `DeliveryPromise` |
| `RefreshProofs` | `TypeCorrect` | `TypeOK` always |
| | `TombstonesAreDeservedAlways` | `TombstonesAreDeserved` always |
| | `RowsTellTheEmbedsAlways` | `RowsTellTheEmbeds` always |
| | `EmbedsRememberAlways` | every step obeys `EmbedsRemember` |
| | `PollingIsPoliteAlways` | `PollingIsPolite` always, if `Interval` is not 0 |
| | `StaleIsBoundedAlways` | `StaleIsBounded` always |
| | `EarlyChecksHappenAlways` | `EarlyChecksHappen` always, without crashes and failed queries for due rows and with ticks that take no time, if both checkpoints are later than 0 and a base tick before the two horizons |
| `AlbumProofs` | `TypeCorrect` | `TypeOK` always |
| | `EveryItemHasItsPlaceAlways` | `EveryItemHasItsPlace` always |
| | `RepeatsNeedABurstAlways` | `RepeatsNeedABurst` always |
| | `AnchorsRepeatExposedAlways` | `AnchorsRepeatExposed` always |
| | `RowsTellThePostsAlways` | `RowsTellThePosts` always |
| | `SettledIsAnsweredAlways` | `SettledIsAnswered` always |
| | `BufferedAreNotAbandonedAlways` | every step obeys `BufferedAreNotAbandoned` |
| `DeliverProofs` | `TypeCorrect` | `TypeOK` always |
| | `IdIsOfTheLastAlways` | `IdIsOfTheLast` always |
| | `PostIsBoundedAlways` | `PostIsBounded` always |
| | `PatchIsBriefAlways` | `PatchIsBrief` always |
| | `PostPromiseKept` | `Deliver` implements `PostPromise` |
| | `OneAMinuteAlways` | `OneAMinute` always, of `Notices` |
| `EmbedsProofs` | `FilesStayAlways` | `FilesStay` always |
| | `GalleryInOrderAlways` | `GalleryInOrder` always |
| `ProcessProofs` | `LossIsRealAlways` | `LossIsReal` always |
| | `OutageIsBoundedAlways` | `OutageIsBounded` always |
| | `RoutesHaveHooksAlways` | `RoutesHaveHooks` always |
| | `LagIsExcusedAlways` | `LagIsExcused` always |
| `WebhookIdentityProofs` | `HashTellsShownAlways` | `HashTellsShown` always |
| | `FirstRouteNamesAlways` | `FirstRouteNames` always |
| | `RestartsAreQuietAlways` | `RestartsAreQuiet` always |

The arguments. Each step lemma has one case per action; what follows are the
inductive invariants and why they are needed.

`Relay`. `RepeatsAreExposed` is not inductive: whether a job may post
depends on what it found when it looked. `UnexposedIsSingle` is its inductive
form: a pair without an excuse has one copy at most, one delivery in flight at
most, and no copy as long as that delivery is between check and post. To keep
it through `CheckStore` one needs that a copy of an unexposed pair is found, that
is, named by a row; this is `Accounted`, which says that every copy is in `rows`,
`pruned`, `orphans` or the hands of a job, and that these are disjoint. A job in
the same pair's hands is excluded by "one delivery at most", an orphan or a
pruned row is an excuse. `Accounted` in turn needs the type invariant and that
two jobs never hold the same id, which is one of its conjuncts. The refinement
needs one invariant more: every job's pair was wanted, because jobs come from
`Targets` of an update in the log, or from a body that was in the log when
backfill read it. `OverlapNeedsABurst` rests on the LRU alone,
whatever its capacity. `Remembered` is its invariant: for each update since a live
job's own, the messages heard of from there on are the last ones in the LRU, or
they are more than it holds. An update keeps that: it moves its message to the end,
and what makes room is the first in the LRU, which is one of the latest only when
they fill it. A job begins only for a message that is not in the LRU, so the messages
since its last update must be too many. `NoLiveOverlap` follows: with room for all
messages no burst is large enough. It cannot do without the room; in `relay_stream`,
with room for one, an update of another message and an edit give a pair two jobs.

`WantedIsInHand` is the safety half of `WantedIsAnswered`: what a consumed update
asked for, if it was news, is posted, reported, cut off by a stop, or with the task
of that very update. It is stated with `Matching`, not with `Targets`, so that the
choice of one route per webhook is part of what is proved: the least matching route
that names a webhook exists (a set of numbers has a least one) and is a target.
That news is taken on (`NewsIsTakenOn`) needs the LRU from the other side: `Memory`
says that it holds nothing twice and that at each of its places stands a message that
was heard of before all those behind it (`Recalls`). So a message it knows was
followed by no more messages than it holds, and is no news (`SeenIsNoNews`). A task
ends in one of five ways; that the store check and the recording are good ways to
end is `Accounted` again, which turns a row or a held id into a copy. When the process
ends, an update past the saved position is not consumed any more, and the tasks of
the others are `abandoned` (`StopAnswers`).

`Refresh`. `TypeInv` is `TypeOK` with the shape of a tick: what is picked or to be
applied has a row, what is to be applied has an answer, and at most one key is
landed. `TombstonesAreDeserved` needs the two places where the belief that a
message is gone is held between the fetch and the write: the answers and the
landed deletion (`DeletedIsGone`). For `RowsTellTheEmbeds` the hard window is
between PATCH and write: `LandedTells` says that what Discord shows then is what
the step still to be done will save, and `WorkedAreLive` that no deleted row is
worked on, so that a tombstone is not dressed again. The excuse is only taken
back when a write puts the row in step (`DoneRows`). For `EmbedsRemember`, a
comment count goes from Telegram to an answer to an embed to a row, and
`CommentsInv` says that each is behind the one before it; that marks stay follows
from the row, which `apply` renders from.

The three bounds of the worker need invariants about time. `PollInv` compares the
answers so far with what a row had passed, in checkpoints and whole intervals,
when it was last checked: a fetched row has passed at least one thing more
(`DueHasPassed`), and each way `apply` can end either notes the check or is a fault.
`StaleInv` is about a row that is late. If the tick is at work on it, the answer
it got is current or went out of date during this tick (`AnswersAreRecent`), so what
is left when the tick is done with it is no older than ticks have taken. If not,
it was checked before it was late (`InTime`), so that it is due when the interval is
over, and the time to the next tick (`Waiting`) is counted in. That a touched row is
not late needs `RowsInv`: `diff` compares with the row, and the row tells the embed.
`AheadInv` says of a checkpoint not yet found due that the next tick comes while
the age is less than a base tick past it, and not past the reaction horizon, where
`decide_refresh` stops to look; this is the hypothesis that `reaction_horizon_mins`
itself, as a checkpoint, does not meet (finding 2).

`Album`. What the loop takes up is what is owed (`FreshIsOwed`): `Owed` is stated with
`News`, without the LRU, and `LruInv` connects the two in both directions. A known
message is no news, as in `Relay`; an unknown one was pushed out, so that more
messages than the LRU holds came since (`Retained`, `UnseenIsNews`).
`PlaceInv` says where an item is: the eight places are apart from each other
(`Apart`) and hold exactly what is owed (`Covered`), the channel holds nothing
twice, batches are apart (`BatchesApart`), and groups and batches are of one
album (`OwnGroup`, `Relatives`). `PostInv` is about what has become of them:
`Accounted` (a post's items are settled, abandoned, or in a batch that is past that
webhook), `Posted` (a batch about to record has posted what it will record),
`StillDue` (for each item of a batch and each of its webhooks, the batch has still
to go there or the item was answered) and `PostsApart` (no update is in two messages
of a webhook). `RepeatsNeedABurst` follows: two posts of one photo show two updates of
it, both owed, so the later one was news. `AnchorsRepeatExposed` has an invariant
of its own for each anchor and webhook that is not exposed (`Sound`): one batch at
most has it before it, a message that was posted has its row or is about to get it,
and a batch about to post is the first. That the buffer's contents are not abandoned
needs only that the signal empties it and the exit awaits the batches (`ShutInv`).

`Deliver`. `IdIsOfTheLast` is inductive by itself: only the step that ends a post
sets the id, and no later step of a finished post exists. The bound on requests is
not: `RequestsAreCounted` is its inductive form, and says that while a post goes on,
each request so far used up a backoff or counted as a rate limit. The time slept is
accounted for likewise (`TimeIsAccountedFor`): what 429s asked for, within the
budget, and the sum of the backoffs used up. That these prefix sums end in the sum
that a fold makes of all backoffs, in an order the fold does not tell, is
`SumIsTheLastPrefixSum`. The refinement follows step by step: a request that fails
after taking effect is a message made unnoticed, a retry or a sleep is a stutter or
such a message, and the end of the call delivers or drops.

`Notices`. `SlotIsTheLast`: the slot that was taken last is the only one taken
within the minute, and it is not free before the minute is over.

`Embeds`. The invariant is that the row is `Known`: its files are files of the
album, all of them, and their images come in the album's order. A PATCH only reads
the row, so the whole question is whether Discord's answer to the POST makes it so
(`CapturedIsKnown`). All files: one that no embed shows is listed, and what is
listed is left out only where it was shown. The order: the embeds show the first
images, each other image is listed after them, and the lists keep their order
(`WhatIsLeft`). What the embeds show follows from where `attach_image_urls` puts
the names (`ImagesArePlaced`) and how Discord resolves them (`NamesResolve`, where
distinct names are needed). That the pictures are the album's and not only some in
its order follows because there is one way only to count a set of numbers off
(`EnumerationIsUnique`).

`DataLemmas`. The models build sequences and sums with folds, which are recursive
functions. What such a fold computes for every input is proved by induction in set
form: a set of numbers that has 0 and with a number the next one has them all
(`NatSetInduction`), from the library's theorem that the natural numbers have no
infinite descent. `FoldIsDefined` gives the recursive function of a fold from its
step, as a function, by induction on the size of the set folded over. A fold is
then followed along the prefixes of its sequence (`KeptIsLeft`,
`UploadsAreNumbered`). The rest is about the LRU: what `Touch` keeps of the latest
messages (`TouchKeepsLatest`) and of the order of the stream (`RecallsOn`).

`HotReload`. `RoutesHaveHooks` needs that what is about to be resolved was loaded
(`ResolvedIsLoaded`), hence passed `Config::load`, and that routes and webhooks are
swapped together. `LagIsExcused` needs what the loop knows of the file in each
stage of a reload (`ReadIsKnown`): an edit that comes while a reload is under way
leaves a time that the next tick will not have seen, since the time is noted
before the file is read.

`Supervisor`. `LossInv`: with n failures counted nothing has been heard for more
than (n − 2) intervals while the loop is free, (n − 1) while it probes; late ticks
can bring two failures closer than an interval, but not more, as a tick that is
missed is skipped. `DarkInv` is the same from the other side: the time an idle
loop has spent without a link is paid for by failures, by one interval of silence
and by the part of an interval since the last deadline. Both are linear in
products of constants, which are named first (`Products`).

`WebhookIdentity`. `HashTellsShown` needs that a PATCH that was delivered and not
recorded is `torn` and left the look that its record would tell of (`HalfIsTorn`).
`FirstRouteNames` is an invariant of the pass over the pairs (`SyncedSoFar`): the
claimed webhooks are those of the resolved pairs so far, and each one's hash is that
of the first of them. `RestartsAreQuiet` counts: each PATCH for a webhook is paid
for by a change of its channel or by a mishap. `Paid` states it as a sum, the
PATCHes sent and those still to come (from the recorded look to what this start
found, and from there to what the channel is now), which never exceeds what was paid
in. It grows only with a rename or a mishap, a PATCH moves one from the second part
to the first, and a lookup without either finds what the last one found
(`CleanLookup`). A lookup that fails has paid for the turn of another route and for
the way back (`Missed`).

Proved only, as no run lists them, are `UnexposedIsSingle`, an inductive form that
`RepeatsAreExposed` follows from, `NoLiveOverlap`, which `OverlapNeedsABurst`
implies, and `RoutesHaveHooks`, the consistency of a snapshot, which no
interleaving puts in question, since the loop alone swaps it and reads it whole.

Only model-checked is liveness: `WantedIsAnswered`, `MediaSettles`,
`EditsTakeEffect`, `PoolEndIsFatal`, `RevocationIsFatal` and `DropsAreHeard` rest on
fairness, which the prover cannot treat.

## 5. Not modelled

* Layout: colours, footers, stats lines, captions, contract addresses, the
  wording of notices and reports, and the command line. They change no state.
* `passes_filter`: the set of bodies a route lets through is the constant
  `Passes`.
* Login, session files and the update stream's own bookkeeping: grammers does
  them. The session's position is `synced` in `Relay`, its loss a revoked link in
  `Supervisor`.
* Schema migration and file permissions of the store, which run once before
  anything else. A store locked by another process appears as the store errors.
* Albums in backfill, grouped by adjacency and delivered one after the other, with
  no other actor on the same group.
* `Album` is one life of the process: what an earlier one recorded is in the
  initial rows, and items of a life that ended are `abandoned`. Replay of media
  after a restart is as an edit after eviction is within one life: the update comes
  to an empty LRU and finds the row of its anchor. When the album was complete that
  is the anchor it was recorded under; a sibling replayed without its album, because
  the saved position lies between them, becomes a batch of its own whose anchor
  never has a row, and is posted again.
* How long a patch waits and a download takes: the code has no limit for either.
  `PatchIsBrief` counts the waits, and that downloads end is assumed.
* `contract_passthrough` and the broadcasts at start and stop are posts of
  `Deliver` whose outcome is ignored.
* The shell scripts and unit files, but for `Restart`, `RestartSec` and the stop
  timeout.

## 6. What could come next

An abstract promise for `Album` as `DeliveryPromise` is for `Relay`, with replay
over several lives; albums of the backfill command; and the memory that media holds
against permits, channel, buffer and batches.
