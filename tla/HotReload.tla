----------------------------- MODULE HotReload -----------------------------
(***************************************************************************)
(* The configuration file and what the process makes of it: Config::load   *)
(* (src/src/config.rs), the resolution of routes (src/src/telegram.rs)     *)
(* and the Live snapshot that reload swaps (src/src/main.rs).              *)
(* The operator edits the file at any moment; loading and resolving are    *)
(* steps of their own, with Telegram asked in between.                     *)
(***************************************************************************)
EXTENDS Naturals

CONSTANTS
    Files,      \* the contents the file may have
    Text,       \* what each says: its webhooks (name -> environment variable),
                \* its routes, and the variable of ops_webhook if there is one
    Env,        \* the variables that are set, for the whole life of a process
    MaxEdits,   \* bound: how often the file is edited
    MaxTrouble  \* bound: lookups of Telegram that fail

(* A route of the file.  An id needs no lookup; "sound" stands for the     *)
(* parts that parse on their own: from, color and mode.                    *)
Route(r) == /\ {"name", "chat", "byId", "to", "sound"} = DOMAIN r
            /\ r.byId \in BOOLEAN /\ r.sound \in BOOLEAN

ASSUME HotReloadAssumption ==
    /\ MaxEdits \in Nat /\ MaxTrouble \in Nat
    /\ \A f \in Files : \A r \in Text[f].routes : Route(r)

VARIABLES
    file,      \* the contents of the file
    mtime,     \* its time of modification
    stage,     \* "down", "loading", "resolving", "settling", "looping" or "reloading"
    config,    \* the contents loaded last
    seen,      \* last_mtime
    live,      \* the Live snapshot: routes and webhooks
    told,      \* the routes named in notices of this process
    trouble,   \* failed lookups so far
    (* observability *)
    early,     \* the file was edited after it was loaded and before mtime was
    refused    \* the last reload kept the previous snapshot

liveVars   == <<live, told>>
reloadVars == <<file, mtime, stage, config, seen, trouble, early, refused, liveVars>>

Stages == {"down", "loading", "resolving", "settling", "looping", "reloading"}
Hooks(f) == Text[f].hooks
Nothing == [routes |-> {}, hooks |-> << >>]

ReloadTypeOK ==
    /\ file \in Files /\ config \in Files
    /\ mtime \in 0..MaxEdits /\ seen \in 0..MaxEdits
    /\ stage \in Stages
    /\ trouble \in 0..MaxTrouble
    /\ early \in BOOLEAN /\ refused \in BOOLEAN

ReloadInit ==
    /\ file \in Files /\ mtime = 0 /\ stage = "down"
    /\ config = file /\ seen = 0
    /\ live = Nothing /\ told = {}
    /\ trouble = 0 /\ early = FALSE /\ refused = FALSE

(* Config::load: the variables of every webhook and of ops_webhook are     *)
(* set, every route is sound and sends to at least one webhook, and to     *)
(* known ones only.                                                        *)
Loadable(f) ==
    /\ \A h \in DOMAIN Hooks(f) : Hooks(f)[h] \in Env
    /\ Text[f].ops \subseteq Env
    /\ \A r \in Text[f].routes : r.sound /\ r.to # {} /\ r.to \subseteq DOMAIN Hooks(f)

(* resolve_routes: a route by id is taken as it is; of those by name any   *)
(* may fail.  It fails as a whole if nothing is left of something.         *)
Resolutions(f) ==
    {rs \in SUBSET Text[f].routes : \A r \in Text[f].routes : r.byId => r \in rs}
Resolves(f, rs) == rs # {} \/ Text[f].routes = {}
Skipped(f, rs) == {r.name : r \in Text[f].routes \ rs}

Lookups(f, rs) ==
    /\ rs \in Resolutions(f)
    /\ trouble' = IF rs = Text[f].routes THEN trouble ELSE trouble + 1
    /\ trouble' <= MaxTrouble
-----------------------------------------------------------------------------
(* The operator saves another version of the file. *)
Edit ==
    /\ mtime < MaxEdits /\ mtime' = mtime + 1
    /\ file' \in Files \ {file}
    /\ early' = (early \/ stage \in {"resolving", "settling"})
    /\ UNCHANGED <<stage, config, seen, trouble, refused, liveVars>>

(* A process starts and loads the file; it ends if the file is no good. *)
Load ==
    /\ stage = "down" /\ Loadable(file)
    /\ stage' = "resolving" /\ config' = file
    /\ live' = Nothing /\ told' = {}
    /\ early' = FALSE /\ refused' = FALSE
    /\ UNCHANGED <<file, mtime, seen, trouble>>

(* The first resolution makes the snapshot; what is skipped is told. *)
ResolveStart ==
    /\ stage = "resolving"
    /\ \E rs \in SUBSET Text[config].routes :
        /\ Lookups(config, rs) /\ Resolves(config, rs)
        /\ live' = [routes |-> rs, hooks |-> Hooks(config)]
        /\ told' = Skipped(config, rs)
    /\ stage' = "settling"
    /\ UNCHANGED <<file, mtime, config, seen, early, refused>>

(* Only now is the file's time taken; what was edited since is not seen. *)
Settle ==
    /\ stage = "settling"
    /\ stage' = "looping" /\ seen' = mtime
    /\ UNCHANGED <<file, mtime, config, trouble, early, refused, liveVars>>

(* A faulty variant: a time must be seen twice before the file is read.    *)
ReloadTickDebounced ==
    /\ stage = "looping" /\ seen # mtime
    /\ seen' = mtime
    /\ UNCHANGED <<file, mtime, stage, config, trouble, early, refused, liveVars>>

(* The reload tick finds another time, and takes note of it first of all. *)
ReloadTick ==
    /\ stage = "looping" /\ seen # mtime
    /\ stage' = "loading" /\ seen' = mtime
    /\ UNCHANGED <<file, mtime, config, trouble, early, refused, liveVars>>

ReloadRead ==
    /\ stage = "loading" /\ Loadable(file)
    /\ stage' = "reloading" /\ config' = file
    /\ UNCHANGED <<file, mtime, seen, trouble, early, refused, liveVars>>

(* A file that does not load is logged and not told to ops. *)
ReloadRejected ==
    /\ stage = "loading" /\ ~Loadable(file)
    /\ stage' = "looping" /\ refused' = TRUE
    /\ UNCHANGED <<file, mtime, config, seen, trouble, early, liveVars>>

(* A faulty variant: the time is taken when the reload is done. *)
SwapThenStamp ==
    /\ stage = "reloading"
    /\ \E rs \in SUBSET Text[config].routes :
        /\ Lookups(config, rs) /\ Resolves(config, rs)
        /\ live' = [routes |-> rs, hooks |-> Hooks(config)]
        /\ told' = told \cup Skipped(config, rs)
    /\ stage' = "looping" /\ refused' = FALSE /\ early' = FALSE
    /\ seen' = mtime
    /\ UNCHANGED <<file, mtime, config>>

(* Routes that do not resolve are told and left out; the snapshot is       *)
(* swapped as a whole.                                                     *)
Swap ==
    /\ stage = "reloading"
    /\ \E rs \in SUBSET Text[config].routes :
        /\ Lookups(config, rs) /\ Resolves(config, rs)
        /\ live' = [routes |-> rs, hooks |-> Hooks(config)]
        /\ told' = told \cup Skipped(config, rs)
    /\ stage' = "looping" /\ refused' = FALSE /\ early' = FALSE
    /\ UNCHANGED <<file, mtime, config, seen>>

(* Nothing resolved: told, and the previous snapshot stays. *)
SwapFails ==
    /\ stage = "reloading"
    /\ \E rs \in SUBSET Text[config].routes : Lookups(config, rs) /\ ~Resolves(config, rs)
    /\ stage' = "looping" /\ refused' = TRUE
    /\ UNCHANGED <<file, mtime, config, seen, early, liveVars>>

(* The process ends, for whatever reason; one that cannot start is tried   *)
(* again.                                                                  *)
Die ==
    /\ stage # "down" /\ stage' = "down"
    /\ UNCHANGED <<file, mtime, config, seen, trouble, early, refused, liveVars>>

ReloadStep == Load \/ ResolveStart \/ Settle \/ ReloadTick \/ ReloadRead \/ ReloadRejected \/ Swap \/ SwapFails

ReloadNext == Edit \/ ReloadStep \/ Die

ReloadSpec == ReloadInit /\ [][ReloadNext]_reloadVars

(* The loop's reload tick comes every five seconds, and its awaits end. *)
ReloadFairness == WF_reloadVars(ReloadStep)
-----------------------------------------------------------------------------
(* Every destination of a live route has its address in the same snapshot, *)
(* so no message that is routed is silently without a target               *)
(* (resolve_targets_named).  It takes the checks of Config::load and the   *)
(* swap as a whole.                                                        *)
RoutesHaveHooks ==
    \A r \in live.routes : r.to # {} /\ r.to \subseteq DOMAIN live.hooks

InForce ==
    /\ live.hooks = Hooks(file)
    /\ live.routes \subseteq Text[file].routes
    /\ {r.name : r \in Text[file].routes \ live.routes} \subseteq told

(* An idle loop whose routes are not those of the file has been refused    *)
(* the reload, or knows of an edit it is going to load, or was edited      *)
(* under while it started, or has told what it left out.  (run, reload.)   *)
LagIsExcused ==
    stage = "looping" => InForce \/ seen # mtime \/ refused \/ early

(* An edit that a running loop may see comes into force, unless its reload *)
(* is refused or the process ends.  (run's reload arm.)                    *)
EditsTakeEffect ==
    (stage = "looping" /\ seen # mtime) ~> (InForce \/ refused \/ stage = "down")
=============================================================================
