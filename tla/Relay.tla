------------------------------- MODULE Relay -------------------------------
(***************************************************************************)
(* The text lane of telegram-relay: Telegram's update stream, the run loop *)
(* that classifies, deduplicates, routes and filters an update             *)
(* (src/src/main.rs handle_update), the fire-and-forget delivery tasks it  *)
(* spawns (spawn_embed: check the store, post to Discord, record the row), *)
(* the `backfill` command, which is another process doing the same three   *)
(* steps against the same SQLite file, and the pruning of old rows.        *)
(*                                                                         *)
(* The three steps of a delivery are separate actions, because other tasks,*)
(* the backfill process, a crash or a restart can come between any two.    *)
(***************************************************************************)
EXTENDS Naturals, Sequences, FiniteSets, Dedup

CONSTANTS
    Chats,         \* source chats
    Msgs,          \* message ids; a message belongs to one chat
    ChatOf,        \* [Msgs -> Chats]
    Bodies,        \* message bodies, as far as filters tell them apart
    Webhooks,      \* destination webhooks, by name
    NumRoutes,     \* routes are numbered in the order config.yaml lists them
    RouteChat,     \* [Routes -> Chats]
    To,            \* [Routes -> SUBSET Webhooks]
    Passes,        \* [Routes -> SUBSET Bodies]: bodies the route's filter lets through
    DedupCap,      \* capacity of the in-memory LRU
    BackfillCount, \* `--count` of a backfill
    MaxLog,        \* bound: updates Telegram emits
    MaxBackfills,  \* bound: backfills an operator starts
    Faults,        \* the kinds of trouble this instance includes
    MaxFaults      \* bound: how often trouble strikes

Routes == 1..NumRoutes

FaultKinds == {"checkError", "lostReply", "drop", "recordError",
               "crash", "shutdown", "backfillCrash", "prune"}

ASSUME RelayAssumption ==
    /\ Msgs \subseteq Nat
    /\ ChatOf \in [Msgs -> Chats]
    /\ NumRoutes \in Nat
    /\ RouteChat \in [Routes -> Chats]
    /\ To \in [Routes -> SUBSET Webhooks]
    /\ Passes \in [Routes -> SUBSET Bodies]
    /\ DedupCap \in Nat \ {0}
    /\ BackfillCount \in Nat
    /\ MaxLog \in Nat
    /\ MaxBackfills \in Nat
    /\ MaxFaults \in Nat
    /\ Faults \subseteq FaultKinds

VARIABLES
    (* Telegram *)
    body,       \* the current body of every published message
    log,        \* every update emitted so far, in order
    synced,     \* how much of log the session file says was consumed
    (* the live process *)
    up,         \* the process is running
    cursor,     \* how much of log the run loop has consumed
    lru,        \* Dedup: the messages seen, least recently seen first
    jobs,       \* deliveries in flight, of the live process and of a backfill
    (* the backfill process *)
    backfills,  \* backfills started so far
    todo,       \* deliveries the running backfill has not begun
    (* relay.db *)
    rows,       \* Discord messages recorded in `relayed`
    aged,       \* those of them older than the horizon
    (* Discord *)
    copies,     \* how many Discord messages show a message on a webhook
    (* observability *)
    orphans,    \* Discord messages that no row will ever name
    pruned,     \* Discord messages whose row was pruned
    doubted,    \* <<msg, hook>> pairs posted though the store could not be read
    overlapped, \* pairs that had two deliveries in flight at once
    noticed,    \* pairs whose delivery was reported dropped
    abandoned,  \* pairs whose delivery was cut off by a stop of the process
    faults      \* faults so far

telegram == <<body, log>>
session  == <<synced>>
loop     == <<up, cursor, lru>>
backfill == <<backfills, todo>>
store    == <<rows, aged, pruned>>
history  == <<doubted, overlapped, noticed, abandoned>>
vars == <<body, log, synced, up, cursor, lru, jobs, backfills, todo, rows, aged,
          copies, orphans, pruned, doubted, overlapped, noticed, abandoned, faults>>

Pairs  == Msgs \X Webhooks
Ids    == Msgs \X Webhooks \X Nat   \* <<m, w, n>>: the n-th Discord message for <<m, w>>
Update == [msg : Msgs, body : Bodies]
Job    == [src : {"live", "backfill"}, upd : Nat, route : Routes, msg : Msgs,
           hook : Webhooks, pc : {"check", "post", "record"}, copy : Nat]

Pair(j) == <<j.msg, j.hook>>
IdOf(j) == <<j.msg, j.hook, j.copy>>

TypeOK ==
    /\ body \in [Msgs -> Bodies \cup {"none"}]
    /\ log \in Seq(Update)
    /\ synced \in Nat /\ cursor \in Nat
    /\ synced <= cursor /\ cursor <= Len(log)
    /\ up \in BOOLEAN
    /\ lru \in Seq(Msgs) /\ Len(lru) <= DedupCap
    /\ jobs \subseteq Job
    /\ backfills \in Nat
    /\ todo \subseteq Routes \X Msgs \X Webhooks
    /\ rows \subseteq Ids /\ aged \subseteq rows
    /\ orphans \subseteq Ids /\ pruned \subseteq Ids
    /\ copies \in [Pairs -> Nat]
    /\ doubted \subseteq Pairs /\ overlapped \subseteq Pairs
    /\ noticed \subseteq Pairs /\ abandoned \subseteq Pairs
    /\ faults \in 0..MaxFaults

Init ==
    /\ body = [m \in Msgs |-> "none"]
    /\ log = <<>>
    /\ synced = 0 /\ cursor = 0
    /\ up = TRUE
    /\ lru = <<>>
    /\ jobs = {} /\ backfills = 0 /\ todo = {}
    /\ rows = {} /\ aged = {} /\ orphans = {} /\ pruned = {}
    /\ copies = [p \in Pairs |-> 0]
    /\ doubted = {} /\ overlapped = {} /\ noticed = {} /\ abandoned = {}
    /\ faults = 0

(* One fault of kind k strikes. *)
Strike(k) == /\ k \in Faults
             /\ faults < MaxFaults
             /\ faults' = faults + 1
-----------------------------------------------------------------------------
(* Telegram: messages are published in id order within a chat, and edited. *)

Published == {m \in Msgs : body[m] # "none"}

Emit(m, b) == /\ Len(log) < MaxLog
              /\ body' = [body EXCEPT ![m] = b]
              /\ log' = Append(log, [msg |-> m, body |-> b])
              /\ UNCHANGED <<session, loop, jobs, backfill, store, copies,
                             orphans, history, faults>>

Publish(m, b) ==
    /\ m \notin Published
    /\ \A q \in Msgs : ChatOf[q] = ChatOf[m] /\ q < m => q \in Published
    /\ Emit(m, b)

Edit(m, b) ==
    /\ m \in Published
    /\ body[m] # b
    /\ Emit(m, b)
-----------------------------------------------------------------------------
(* Router and filters. *)

(* A faulty variant: the route's filter is not consulted. *)
MatchingUnfiltered(c, b) == {r \in Routes : RouteChat[r] = c}

(* Router::match_chat, then passes_filter on each route it returns. *)
Matching(c, b) == {r \in Routes : RouteChat[r] = c /\ b \in Passes[r]}

(* A faulty variant: no `seen` set, so two routes post to one webhook. *)
TargetsRepeated(c, b) ==
    {t \in Routes \X Webhooks : t[1] \in Matching(c, b) /\ t[2] \in To[t[1]]}

(* A faulty variant: `seen` is filled before the filter is consulted. *)
TargetsSeenFirst(c, b) ==
    {t \in Routes \X Webhooks :
        /\ t[1] \in Matching(c, b)
        /\ t[2] \in To[t[1]]
        /\ \A q \in Routes : RouteChat[q] = c /\ t[2] \in To[q] => t[1] <= q}

(* Each webhook of a matching route gets the message once, under the first *)
(* route that names it (the `seen` set).                                   *)
Targets(c, b) ==
    {t \in Routes \X Webhooks :
        /\ t[1] \in Matching(c, b)
        /\ t[2] \in To[t[1]]
        /\ \A q \in Matching(c, b) : t[2] \in To[q] => t[1] <= q}

(* New deliveries join those in flight. *)
Spawn(new) ==
    /\ jobs' = jobs \cup new
    /\ overlapped' = overlapped \cup {Pair(j) : j \in {k \in new : \E i \in jobs : Pair(i) = Pair(k)}}

NewJob(src, i, r, m, w) ==
    [src |-> src, upd |-> i, route |-> r, msg |-> m, hook |-> w,
     pc |-> "check", copy |-> 0]

(* handle_update on the next update of the stream. *)
HandleUpdate ==
    /\ up
    /\ cursor < Len(log)
    /\ LET u == log[cursor + 1]
           fresh == IF Seen(lru, u.msg) THEN {} ELSE Targets(ChatOf[u.msg], u.body)
       IN  Spawn({NewJob("live", cursor + 1, t[1], u.msg, t[2]) : t \in fresh})
    /\ lru' = Touch(lru, log[cursor + 1].msg, DedupCap)
    /\ cursor' = cursor + 1
    /\ UNCHANGED <<telegram, session, up, backfill, store, copies, orphans,
                   doubted, noticed, abandoned, faults>>
-----------------------------------------------------------------------------
(* One delivery: check the store, post, record. A live task (spawn_embed)  *)
(* and the loop body of a backfill take the same steps.                    *)

(* A faulty variant: only rows inside the horizon are looked up. *)
AlreadyRelayedYoung(p) == \E id \in rows \ aged : <<id[1], id[2]>> = p

AlreadyRelayed(p) == \E id \in rows : <<id[1], id[2]>> = p

Move(j, pc, n) == jobs' = (jobs \ {j}) \cup {[j EXCEPT !.pc = pc, !.copy = n]}
Finish(j)      == jobs' = jobs \ {j}

(* A faulty variant: the delivery path trusts the LRU alone. *)
CheckStoreSkipped(j) ==
    /\ j.pc = "check"
    /\ Move(j, "post", 0)
    /\ UNCHANGED <<telegram, session, loop, backfill, store, copies, orphans,
                   history, faults>>

CheckStore(j) ==
    /\ j.pc = "check"
    /\ IF AlreadyRelayed(Pair(j)) THEN Finish(j) ELSE Move(j, "post", 0)
    /\ UNCHANGED <<telegram, session, loop, backfill, store, copies, orphans,
                   history, faults>>

(* "dedup store check failed; posting anyway" *)
CheckError(j) ==
    /\ j.pc = "check"
    /\ Strike("checkError")
    /\ Move(j, "post", 0)
    /\ doubted' = doubted \cup {Pair(j)}
    /\ UNCHANGED <<telegram, session, loop, backfill, store, copies, orphans,
                   overlapped, noticed, abandoned>>

(* Discord created the message and its reply reached us. *)
PostDelivered(j) ==
    /\ j.pc = "post"
    /\ copies' = [copies EXCEPT ![Pair(j)] = @ + 1]
    /\ Move(j, "record", copies[Pair(j)] + 1)
    /\ UNCHANGED <<telegram, session, loop, backfill, store, orphans, history, faults>>

(* Discord created the message but the reply was lost or a 5xx, so         *)
(* send_json_capture sends it again.                                       *)
PostLostReply(j) ==
    /\ j.pc = "post"
    /\ Strike("lostReply")
    /\ copies' = [copies EXCEPT ![Pair(j)] = @ + 1]
    /\ orphans' = orphans \cup {<<j.msg, j.hook, copies[Pair(j)] + 1>>}
    /\ UNCHANGED <<telegram, session, loop, jobs, backfill, store, history>>

(* A faulty variant: a dropped delivery is not reported. *)
PostDroppedSilently(j) ==
    /\ j.pc = "post"
    /\ Strike("drop")
    /\ Finish(j)
    /\ UNCHANGED <<telegram, session, loop, backfill, store, copies, orphans, history>>

(* PostResult::Dropped: the live task raises a notice, a backfill counts. *)
PostDropped(j) ==
    /\ j.pc = "post"
    /\ Strike("drop")
    /\ Finish(j)
    /\ noticed' = IF j.src = "live" THEN noticed \cup {Pair(j)} ELSE noticed
    /\ UNCHANGED <<telegram, session, loop, backfill, store, copies, orphans,
                   doubted, overlapped, abandoned>>

(* Store::record *)
RecordRow(j) ==
    /\ j.pc = "record"
    /\ rows' = rows \cup {IdOf(j)}
    /\ Finish(j)
    /\ UNCHANGED <<telegram, session, loop, backfill, aged, pruned, copies,
                   orphans, history, faults>>

(* "failed to record relayed message": the error is only logged. *)
RecordError(j) ==
    /\ j.pc = "record"
    /\ Strike("recordError")
    /\ orphans' = orphans \cup {IdOf(j)}
    /\ Finish(j)
    /\ UNCHANGED <<telegram, session, loop, backfill, store, copies, history>>

JobStep(j) == \/ CheckStore(j) \/ CheckError(j)
              \/ PostDelivered(j) \/ PostLostReply(j) \/ PostDropped(j)
              \/ RecordRow(j) \/ RecordError(j)
-----------------------------------------------------------------------------
(* The process: crash, graceful stop, restart by systemd (Restart=always). *)

Live == {j \in jobs : j.src = "live"}

(* Every spawned task dies with the process. What it had in hand is lost   *)
(* for good only when the session says that the update was consumed: the   *)
(* others are replayed.                                                    *)
Stop ==
    /\ up /\ up' = FALSE
    /\ jobs' = jobs \ Live
    /\ orphans' = orphans \cup {IdOf(j) : j \in {k \in Live : k.pc = "record"}}
    /\ abandoned' = abandoned \cup {Pair(j) : j \in {k \in Live :
                                             k.pc # "record" /\ k.upd <= synced'}}
    /\ lru' = <<>>
    /\ UNCHANGED <<telegram, backfill, store, copies, doubted, overlapped, noticed>>

(* A panic, a kill, or an error return of `run`: what the session file     *)
(* says was consumed is all that is left of the position in the stream.    *)
Crash == /\ Strike("crash")
         /\ UNCHANGED session
         /\ cursor' = synced
         /\ Stop

(* SIGTERM: the loop breaks and sync_update_state saves the position; the  *)
(* spawned tasks are not awaited.                                          *)
Shutdown == /\ Strike("shutdown")
            /\ synced' = cursor
            /\ UNCHANGED cursor
            /\ Stop

(* systemd starts the process again; catch_up replays log from synced. *)
Restart ==
    /\ ~up /\ up' = TRUE
    /\ UNCHANGED <<telegram, session, cursor, lru, jobs, backfill, store, copies,
                   orphans, history, faults>>

(* The session persists the update state on its own as well. *)
SyncState ==
    /\ up
    /\ synced # cursor
    /\ synced' = cursor
    /\ UNCHANGED <<telegram, loop, jobs, backfill, store, copies, orphans,
                   history, faults>>
-----------------------------------------------------------------------------
(* `telegram-relay backfill <route> --count N` *)

(* iter_messages(..).limit(count) *)
Recent(c) == {m \in Published :
                /\ ChatOf[m] = c
                /\ Cardinality({q \in Published : ChatOf[q] = c /\ q > m}) < BackfillCount}

BackfillIdle == todo = {} /\ ~\E j \in jobs : j.src = "backfill"

BackfillStart(r) ==
    /\ BackfillIdle
    /\ backfills < MaxBackfills
    /\ backfills' = backfills + 1
    /\ todo' = {<<r, m, w>> : m \in {q \in Recent(RouteChat[r]) : body[q] \in Passes[r]},
                              w \in To[r]}
    /\ UNCHANGED <<telegram, session, loop, jobs, store, copies, orphans, history, faults>>

(* Oldest message first, one target at a time, each awaited. *)
BackfillNext(d) ==
    /\ ~\E j \in jobs : j.src = "backfill"
    /\ \A e \in todo : d[2] <= e[2]
    /\ todo' = todo \ {d}
    /\ Spawn({NewJob("backfill", 0, d[1], d[2], d[3])})
    /\ UNCHANGED <<telegram, session, loop, backfills, store, copies, orphans,
                   doubted, noticed, abandoned, faults>>

(* The operator interrupts it, or it dies. *)
BackfillCrash ==
    /\ ~BackfillIdle
    /\ Strike("backfillCrash")
    /\ todo' = {}
    /\ jobs' = Live
    /\ orphans' = orphans \cup {IdOf(j) : j \in {k \in jobs \ Live : k.pc = "record"}}
    /\ UNCHANGED <<telegram, session, loop, backfills, store, copies, history>>
-----------------------------------------------------------------------------
(* The rows outlive the horizon (48 h; a delivery takes minutes, so none   *)
(* is in flight across it), and the refresh worker prunes them. tick_once  *)
(* returns early, without pruning, when no row is young enough to be due.  *)

HorizonPasses ==
    /\ jobs = {}
    /\ aged # rows
    /\ aged' = rows
    /\ UNCHANGED <<telegram, session, loop, jobs, backfill, rows, pruned, copies,
                   orphans, history, faults>>

(* A faulty variant: every row goes, young ones too. *)
PruneAll ==
    /\ up
    /\ rows \ aged # {}
    /\ aged # {}
    /\ Strike("prune")
    /\ rows' = {}
    /\ pruned' = pruned \cup aged
    /\ aged' = {}
    /\ UNCHANGED <<telegram, session, loop, jobs, backfill, copies, orphans, history>>

Prune ==
    /\ up
    /\ rows \ aged # {}
    /\ aged # {}
    /\ Strike("prune")
    /\ rows' = rows \ aged
    /\ pruned' = pruned \cup aged
    /\ aged' = {}
    /\ UNCHANGED <<telegram, session, loop, jobs, backfill, copies, orphans, history>>
-----------------------------------------------------------------------------
Next ==
    \/ \E m \in Msgs, b \in Bodies : Publish(m, b) \/ Edit(m, b)
    \/ HandleUpdate
    \/ \E j \in jobs : JobStep(j)
    \/ Crash \/ Shutdown \/ Restart \/ SyncState
    \/ \E r \in Routes : BackfillStart(r)
    \/ \E d \in todo : BackfillNext(d)
    \/ BackfillCrash
    \/ HorizonPasses \/ Prune

Spec == Init /\ [][Next]_vars

(* The run loop keeps polling the stream, tokio runs every spawned task,   *)
(* and systemd restarts the service (Restart=always). Nothing is assumed   *)
(* of Telegram's users, of the operator or of the faults.                  *)
Fairness ==
    /\ WF_vars(HandleUpdate)
    /\ WF_vars(Restart)
    /\ \A m \in Msgs, w \in Webhooks :
         WF_vars(\E j \in Live : Pair(j) = <<m, w>> /\ JobStep(j))

FairSpec == Spec /\ Fairness
-----------------------------------------------------------------------------
(* Every Discord message the relay created is in exactly one place: a row  *)
(* names it, its row was pruned, a task still holds its id, or it is an    *)
(* orphan that no row will ever name. Violated by a step that forgets,     *)
(* reuses or records twice the id Discord answered with (spawn_embed,      *)
(* Store::record, Store::prune, and every way a process can stop).         *)
Recording == {j \in jobs : j.pc = "record"}
Pending   == {IdOf(j) : j \in Recording}

Accounted ==
    /\ \A p \in Pairs : \A n \in 1..copies[p] :
          <<p[1], p[2], n>> \in rows \cup pruned \cup orphans \cup Pending
    /\ \A id \in rows \cup pruned \cup orphans \cup Pending :
          id[3] \in 1..copies[<<id[1], id[2]>>]
    /\ rows \cap (pruned \cup orphans \cup Pending) = {}
    /\ pruned \cap (orphans \cup Pending) = {}
    /\ orphans \cap Pending = {}
    /\ \A i, j \in Recording : IdOf(i) = IdOf(j) => i = j

(* What may make the relay post a pair again: a Discord message of it that *)
(* no row names, a store that could not be read, or two deliveries of it   *)
(* in flight at once.                                                      *)
Exposed(p) ==
    \/ p \in doubted \cup overlapped
    \/ \E id \in orphans \cup pruned : <<id[1], id[2]>> = p

(* A message appears twice on a webhook only when the pair was exposed:    *)
(* edits, replays, several routes and backfills alone never repeat it.     *)
RepeatsAreExposed == \A p \in Pairs : copies[p] > 1 => Exposed(p)

(* Why: an unexposed pair has at most one delivery in flight, and one that *)
(* is about to post has found no copy. (The inductive form of the above.)  *)
Single(p) ==
    /\ copies[p] <= 1
    /\ \A i, j \in jobs : Pair(i) = p /\ Pair(j) = p => i = j
    /\ \A j \in jobs : Pair(j) = p /\ j.pc = "post" => copies[p] = 0

UnexposedIsSingle == \A p \in Pairs : ~Exposed(p) => Single(p)

(* The messages of the updates, as the LRU hears of them. *)
Stream == [k \in 1..Len(log) |-> log[k].msg]

(* Two tasks of one process deliver the same pair at once only when a      *)
(* burst pushed the message out of the LRU in between: since its last      *)
(* update, edits and replays included, more messages were heard of than    *)
(* the LRU holds (handle_update, Dedup::check_and_insert).                 *)
OverlapNeedsABurst ==
    \A i, j \in Live : Pair(i) = Pair(j) /\ i # j /\ i.upd <= j.upd =>
        /\ i.upd < j.upd
        /\ \A k \in i.upd..(j.upd - 1) : log[k].msg = i.msg =>
              Cardinality(Burst(Stream, k, j.upd - 1)) > DedupCap

(* Without such bursts there is one task a pair at most: an edit, a replay *)
(* or a second route naming the same webhook spawns no second task.        *)
NoLiveOverlap == \A i, j \in Live : Pair(i) = Pair(j) => i = j

(* "so an overlapping message is never posted twice" (src/src/main.rs:1478,*)
(* about the store check of spawn_embed).                                  *)
NeverTwice == \A p \in Pairs : copies[p] <= 1

(* The pairs that the configuration asks for, at some version of the       *)
(* message: a route from its chat to that webhook whose filter it passes.  *)
Wanted == {p \in Pairs : \E i \in 1..Len(log), r \in Routes :
             /\ log[i].msg = p[1]
             /\ RouteChat[r] = ChatOf[p[1]]
             /\ log[i].body \in Passes[r]
             /\ p[2] \in To[r]}

(* The relay does what delivery promises: it posts only what was routed    *)
(* there, and the excuse for a repetition is there before the repetition.  *)
Promise == INSTANCE DeliveryPromise WITH
    wanted   <- Wanted,
    sent     <- {p \in Pairs : copies[p] > 0},
    repeated <- {p \in Pairs : copies[p] > 1},
    excused  <- {p \in Pairs : Exposed(p)}

KeepsPromise == Promise!Spec

(* Update i asks for the pair p: it is news, so the LRU cannot hold its    *)
(* message, and a route that its version passes names the webhook. An edit *)
(* that follows while the message may be remembered asks for nothing, even *)
(* when it is the first version that a filter lets through.                *)
WantedBy(i, p) ==
    /\ log[i].msg = p[1]
    /\ News(Stream, i, DedupCap)
    /\ \E r \in Matching(ChatOf[p[1]], log[i].body) : p[2] \in To[r]

(* It reached Discord, its loss was reported, or the process was stopped   *)
(* with its delivery in hand and its update counted as consumed.           *)
Answered(p) == copies[p] > 0 \/ p \in noticed \/ p \in abandoned

(* What the run loop has consumed is answered or in the hands of the task  *)
(* of that very update: no news is swallowed by the LRU, the choice of     *)
(* targets, the store check or a stop, though the stream will not bring it *)
(* again once the position is saved (handle_update, spawn_embed, run).     *)
WantedIsInHand ==
    \A i \in 1..cursor, p \in Pairs :
        WantedBy(i, p) => Answered(p) \/ \E j \in Live : Pair(j) = p /\ j.upd = i

(* Every pair that some update asks for is answered in the end.            *)
WantedIsAnswered ==
    \A p \in Pairs : (\E i \in 1..Len(log) : WantedBy(i, p)) ~> Answered(p)
=============================================================================
