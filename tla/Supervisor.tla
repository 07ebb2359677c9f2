----------------------------- MODULE Supervisor -----------------------------
(***************************************************************************)
(* The life of the relay's process (run in src/src/main.rs) under systemd  *)
(* (src/deploy/telegram-relay.service): start-up, the select! loop with    *)
(* its arms, the liveness probe and its counter of failures, the notices   *)
(* that are posted before the process gives up, and the graceful stop.     *)
(* The loop is one task: while a handler, a probe or a notice is awaited,  *)
(* no other arm runs.  Time passes in units (Elapse).                      *)
(***************************************************************************)
EXTENDS Integers

CONSTANTS
    Probe,        \* LIVENESS_PROBE
    Attempts,     \* the failures in a row that end the process
    RestartSec,   \* RestartSec of the unit
    StopTimeout,  \* what systemd grants a stopping process (external)
    MaxBusy,      \* bound: the longest handler of an update, error or reload
    MaxPost,      \* bound: the longest post of a notice or a broadcast
    MaxFaults,    \* bound: changes of the link, ends of the pool and kills
    Cap           \* bound: where the observed times stop counting

ASSUME SupervisorAssumption ==
    /\ Probe \in Nat \ {0} /\ Attempts \in Nat \ {0}
    /\ RestartSec \in Nat /\ StopTimeout \in Nat
    /\ MaxBusy \in Nat /\ MaxPost \in Nat
    /\ MaxFaults \in Nat
    /\ Cap \in Nat /\ Cap > (Attempts + 1) * Probe

VARIABLES
    phase,      \* what the process is doing
    spent,      \* for how long
    silence,    \* last_update.elapsed(), counted up to Probe
    failures,   \* probe_failures
    clock,      \* time since the last deadline of liveness_tick
    due,        \* liveness_tick is ready
    signalled,  \* SIGTERM was sent
    waited,     \* how long ago
    reason,     \* why the last process ended, or the present one is about to
    (* the outside *)
    link,       \* "up", "down" or "revoked": Telegram as the client finds it
    pool,       \* "running" or "ended": the sender pool's task
    discord,    \* whether the ops webhook answers
    faults,     \* faults so far
    (* observability *)
    contact,    \* time since the last update, good probe or start of the loop
    dark        \* time the loop has been idle with the link down since contact

process  == <<phase, spent, silence, failures, clock, due, signalled, waited, reason>>
outside  == <<link, pool, discord, faults>>
observed == <<contact, dark>>
vars     == <<process, outside, observed>>

Starting == {"connecting", "resolving", "greeting"}
InLoop   == {"looping", "handling", "probing"}
Stopping == {"farewell", "flushing", "syncing"}
Phases   == Starting \cup InLoop \cup Stopping \cup {"telling", "down"}
Reasons  == {"none", "startup", "resolution", "pool", "deauthorized",
             "unrecoverable", "stopped", "killed"}

TypeOK ==
    /\ phase \in Phases /\ spent \in Nat
    /\ silence \in 0..Probe /\ failures \in 0..Attempts
    /\ clock \in 0..Probe - 1 /\ due \in BOOLEAN
    /\ signalled \in BOOLEAN /\ waited \in 0..StopTimeout
    /\ reason \in Reasons
    /\ link \in {"up", "down", "revoked"} /\ pool \in {"running", "ended"}
    /\ discord \in BOOLEAN /\ faults \in 0..MaxFaults
    /\ contact \in 0..Cap /\ dark \in 0..Cap

Init ==
    /\ phase = "connecting" /\ spent = 0
    /\ silence = 0 /\ failures = 0 /\ clock = 0 /\ due = FALSE
    /\ signalled = FALSE /\ waited = 0 /\ reason = "none"
    /\ link \in {"up", "down", "revoked"} /\ pool = "running"
    /\ discord \in BOOLEAN /\ faults = 0
    /\ contact = 0 /\ dark = 0

Responsive == link = "up" /\ pool = "running"

Enter(p) == phase' = p /\ spent' = 0

(* The process ends; what it held in memory is gone.                       *)
End(r) ==
    /\ Enter("down") /\ reason' = r
    /\ signalled' = FALSE /\ waited' = 0
    /\ UNCHANGED <<silence, failures, clock, due, outside, contact, dark>>

(* The process is about to end; ops is told first. *)
GiveUp(r) ==
    /\ Enter("telling") /\ reason' = r
    /\ UNCHANGED <<silence, clock, due, signalled, waited, outside, observed>>
-----------------------------------------------------------------------------
(* systemd starts the unit again whatever ended it, and without limit. *)
Start ==
    /\ phase = "down" /\ spent >= RestartSec
    /\ Enter("connecting") /\ reason' = "none"
    /\ pool' = "running"
    /\ UNCHANGED <<silence, failures, clock, due, signalled, waited,
                   link, discord, faults, contact, dark>>

Connected ==
    /\ phase = "connecting" /\ Responsive
    /\ Enter("resolving")
    /\ UNCHANGED <<silence, failures, clock, due, signalled, waited, reason,
                   outside, observed>>

(* The session cannot be opened or checked or is not authorized, or the    *)
(* stream cannot be had: the process ends and tells nobody.                *)
NotConnected ==
    phase \in {"connecting", "resolving"} /\ ~Responsive /\ End("startup")

(* The last statements before the loop: the interval, whose first tick is  *)
(* ready at once, and last_update.                                         *)
Resolved ==
    /\ phase = "resolving" /\ Responsive
    /\ Enter("greeting")
    /\ silence' = 0 /\ failures' = 0 /\ clock' = 0 /\ due' = TRUE
    /\ contact' = 0 /\ dark' = 0
    /\ UNCHANGED <<signalled, waited, reason, outside>>

(* No route could be resolved. *)
NotResolved ==
    /\ phase = "resolving" /\ failures' = failures
    /\ GiveUp("resolution")

Greeted ==
    /\ phase = "greeting"
    /\ Enter("looping")
    /\ UNCHANGED <<silence, failures, clock, due, signalled, waited, reason,
                   outside, observed>>
-----------------------------------------------------------------------------
(* The arms of select!, each of which may be taken whenever it is ready. *)
SignalArm ==
    /\ phase = "looping" /\ signalled
    /\ Enter("farewell")
    /\ UNCHANGED <<silence, failures, clock, due, signalled, waited, reason,
                   outside, observed>>

PoolArm ==
    /\ phase = "looping" /\ pool = "ended"
    /\ failures' = failures
    /\ GiveUp("pool")

UpdateArm ==
    /\ phase = "looping" /\ Responsive
    /\ Enter("handling")
    /\ silence' = 0 /\ failures' = 0
    /\ contact' = 0 /\ dark' = 0
    /\ UNCHANGED <<clock, due, signalled, waited, reason, outside>>

(* A faulty variant: an error counts as an update. *)
StreamErrorArmAsUpdate ==
    /\ phase = "looping" /\ ~Responsive
    /\ Enter("handling")
    /\ silence' = 0 /\ failures' = 0
    /\ UNCHANGED <<clock, due, signalled, waited, reason, outside, observed>>

(* An error of the stream: a pause, and nothing else. *)
StreamErrorArm ==
    /\ phase = "looping" /\ ~Responsive
    /\ Enter("handling")
    /\ UNCHANGED <<silence, failures, clock, due, signalled, waited, reason,
                   outside, observed>>

(* A changed configuration is loaded and resolved inside the loop. *)
ReloadArm ==
    /\ phase = "looping"
    /\ Enter("handling")
    /\ UNCHANGED <<silence, failures, clock, due, signalled, waited, reason,
                   outside, observed>>

HandlerEnds ==
    /\ phase = "handling"
    /\ Enter("looping")
    /\ UNCHANGED <<silence, failures, clock, due, signalled, waited, reason,
                   outside, observed>>

(* The liveness tick asks Telegram only after a silence. *)
ProbeArm ==
    /\ phase = "looping" /\ due
    /\ due' = FALSE
    /\ IF silence >= Probe THEN Enter("probing") ELSE UNCHANGED <<phase, spent>>
    /\ UNCHANGED <<silence, failures, clock, signalled, waited, reason,
                   outside, observed>>

(* A faulty variant: a good probe leaves the count of failures alone. *)
ProbeAnsweredKeepsCount ==
    /\ phase = "probing" /\ Responsive
    /\ Enter("looping")
    /\ contact' = 0 /\ dark' = 0
    /\ UNCHANGED <<silence, failures, clock, due, signalled, waited, reason,
                   outside>>

ProbeAnswered ==
    /\ phase = "probing" /\ Responsive
    /\ Enter("looping")
    /\ failures' = 0
    /\ contact' = 0 /\ dark' = 0
    /\ UNCHANGED <<silence, clock, due, signalled, waited, reason,
                   outside>>

(* Any other error counts, one that a Telegram in service answers with too. *)
ProbeFailed ==
    /\ phase = "probing"
    /\ link # "revoked" \/ pool = "ended"
    /\ failures' = failures + 1
    /\ IF failures + 1 >= Attempts
       THEN GiveUp("unrecoverable")
       ELSE /\ Enter("looping")
            /\ UNCHANGED <<silence, clock, due, signalled, waited, reason,
                           outside, observed>>

(* A request to a pool that has ended fails at once. *)
ProbeOfEndedPool == pool = "ended" /\ ProbeFailed

(* is_auth_error *)
ProbeRefused ==
    /\ phase = "probing" /\ link = "revoked" /\ pool = "running"
    /\ failures' = failures
    /\ GiveUp("deauthorized")

(* A faulty variant: the process insists on being heard. *)
ToldOnlyIfHeard == phase = "telling" /\ discord /\ End(reason)

(* The notice was posted, or could not be; the process returns the error. *)
Told == phase = "telling" /\ End(reason)
-----------------------------------------------------------------------------
(* The graceful stop: boot-down broadcast, flush_all, sync_update_state. *)
FarewellEnds ==
    /\ phase = "farewell"
    /\ Enter("flushing")
    /\ UNCHANGED <<silence, failures, clock, due, signalled, waited, reason,
                   outside, observed>>

Flushed ==
    /\ phase = "flushing"
    /\ Enter("syncing")
    /\ UNCHANGED <<silence, failures, clock, due, signalled, waited, reason,
                   outside, observed>>

(* sync_update_state, quit and the end of the process.  A sync that fails  *)
(* is ignored.                                                             *)
Synced ==
    /\ phase = "syncing"
    /\ Enter("down") /\ reason' = "stopped"
    /\ signalled' = FALSE /\ waited' = 0
    /\ UNCHANGED <<silence, failures, clock, due, outside,
                   contact, dark>>
-----------------------------------------------------------------------------
(* The outside: the link, the pool, the operator, the kernel, systemd. *)
Outside(l, p) ==
    /\ faults < MaxFaults /\ faults' = faults + 1
    /\ link' = l /\ pool' = p
    /\ UNCHANGED <<process, discord, observed>>

LinkFails   == link = "up" /\ Outside("down", pool)
LinkReturns == link = "down" /\ link' = "up" /\ UNCHANGED <<process, pool, discord, faults, observed>>
Revoke      == link # "revoked" /\ Outside("revoked", pool)
PoolEnds    == pool = "running" /\ phase # "down" /\ Outside(link, "ended")

(* Until the loop's handler is installed SIGTERM ends the process at once. *)
Signal ==
    /\ phase \notin {"down", "connecting", "resolving"} /\ ~signalled
    /\ signalled' = TRUE
    /\ UNCHANGED <<phase, spent, silence, failures, clock, due, waited, reason,
                   outside, observed>>

SignalEarly == phase \in {"connecting", "resolving"} /\ End("stopped")

Kill ==
    /\ phase # "down"
    /\ faults < MaxFaults /\ faults' = faults + 1
    /\ Enter("down") /\ reason' = "killed"
    /\ signalled' = FALSE /\ waited' = 0
    /\ UNCHANGED <<silence, failures, clock, due, link, pool, discord, observed>>

StopTimesOut == signalled /\ waited = StopTimeout /\ End("killed")

(* A unit of time.  The idle loop takes an arm that is ready before time   *)
(* passes; what it awaits takes as long as its bound allows, and a probe,  *)
(* which has no timeout, as long as it likes.                              *)
MayLast(p) ==
    CASE p = "looping"               -> ~due /\ ~signalled /\ pool = "running"
      [] p = "probing"               -> TRUE
      [] p \in {"handling", "flushing", "syncing"} -> spent < MaxBusy
      [] p \in {"telling", "greeting", "farewell"} -> spent < MaxPost
      [] p = "down"                  -> spent < RestartSec
      [] OTHER                       -> FALSE

UpTo(n, cap) == IF n < cap THEN n + 1 ELSE n

Elapse ==
    /\ MayLast(phase)
    /\ signalled => waited < StopTimeout
    /\ spent' = IF phase \in {"looping", "probing"} THEN 0 ELSE spent + 1
    /\ waited' = IF signalled THEN waited + 1 ELSE waited
    /\ silence' = UpTo(silence, Probe)
    /\ clock' = (clock + 1) % Probe
    /\ due' = (due \/ clock' = 0)
    /\ contact' = UpTo(contact, Cap)
    /\ dark' = IF phase = "looping" /\ link = "down" THEN UpTo(dark, Cap) ELSE dark
    /\ UNCHANGED <<phase, failures, signalled, reason, outside>>
-----------------------------------------------------------------------------
StartUp == Start \/ Connected \/ NotConnected \/ Resolved \/ NotResolved \/ Greeted
Arms    == SignalArm \/ PoolArm \/ UpdateArm \/ StreamErrorArm \/ ReloadArm \/ ProbeArm
Probing == ProbeAnswered \/ ProbeFailed \/ ProbeRefused
GoDown  == Told \/ FarewellEnds \/ Flushed \/ Synced
World   == LinkFails \/ LinkReturns \/ Revoke \/ PoolEnds \/ Signal \/ SignalEarly \/ Kill \/ StopTimesOut

Next == StartUp \/ Arms \/ HandlerEnds \/ Probing \/ GoDown \/ World \/ Elapse

Spec == Init /\ [][Next]_vars

(* select! polls its arms in random order, so an arm that is ready again   *)
(* and again is taken: strong fairness.  What is awaited ends, except that *)
(* get_me may wait for ever on a pool that runs, and time goes on.         *)
Fairness ==
    /\ SF_vars(SignalArm) /\ SF_vars(PoolArm) /\ SF_vars(ProbeArm)
    /\ WF_vars(HandlerEnds) /\ WF_vars(ProbeOfEndedPool) /\ WF_vars(ProbeRefused) /\ WF_vars(Told)
    /\ WF_vars(FarewellEnds) /\ WF_vars(Flushed) /\ WF_vars(Synced)
    /\ WF_vars(Start) /\ WF_vars(Greeted)
    /\ SF_vars(Elapse) /\ WF_vars(StopTimesOut)

FairSpec == Spec /\ Fairness
-----------------------------------------------------------------------------
(* The process calls Telegram lost only when nothing good was heard of it, *)
(* by update or probe, for more than a whole probe interval, whatever      *)
(* delayed the ticks in between.  (The count in run's liveness arm.)       *)
LossIsReal ==
    phase = "telling" /\ reason = "unrecoverable" => contact > (Attempts - 2) * Probe

(* A loop that is free to act gives a dead link no more than one interval  *)
(* and one for every attempt, however its ticks fall; the time it spends   *)
(* in handlers and in probes without an answer is not counted.             *)
OutageIsBounded == phase \in InLoop => dark < (Attempts + 1) * Probe

(* A loop whose sender pool has ended does not stay up, even if ops cannot *)
(* be told: nothing else would make systemd start it again.                *)
PoolEndIsFatal == (pool = "ended" /\ phase \in InLoop) ~> (phase = "down")

(* A revoked session ends the process even when no update comes to tell of *)
(* it: the stream's errors do not pass for life.  (The probe's auth arm.)  *)
RevocationIsFatal ==
    (link = "revoked" /\ phase \in InLoop) ~> (phase = "down")
=============================================================================
