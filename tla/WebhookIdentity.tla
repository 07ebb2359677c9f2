-------------------------- MODULE WebhookIdentity --------------------------
(***************************************************************************)
(* sync_webhook_identities (src/src/main.rs): at every start the titles    *)
(* and photos of the source channels are mirrored onto the webhooks their  *)
(* routes send to, the first route that can claiming a webhook, and a hash *)
(* in the store keeps restarts from repeating a PATCH.  Channels change at *)
(* any time; a PATCH may take effect and be called dropped, the store may  *)
(* fail, and the process may end between any two steps.                    *)
(***************************************************************************)
EXTENDS Naturals, Sequences

CONSTANTS
    Hops,        \* the (route, webhook) pairs in the order of the file:
                 \* a sequence of records [chat, hook]
    Channels,    \* the chats of routes by name
    Titles,
    Photos,
    NoPhoto,
    NoIdentity,  \* no hash is stored; or a chat that did not resolve
    MaxRenames,  \* bound: changes of channels
    MaxMishaps   \* bound: failed lookups, PATCHes and writes, and crashes

HookNames == {Hops[i].hook : i \in DOMAIN Hops}
Identities == [title : Titles, photo : Photos \cup {NoPhoto}]

ASSUME IdentityAssumption ==
    /\ Hops \in Seq([chat : Channels, hook : STRING])
    /\ MaxRenames \in Nat /\ MaxMishaps \in Nat
    /\ NoPhoto \notin Photos /\ NoIdentity \notin Identities

VARIABLES
    channel,  \* what each channel is called and looks like
    shown,    \* what each webhook is called and looks like on Discord
    hash,     \* webhook_identity in the store: the identity hashed
    unasked,  \* the channels this start has not looked up yet
    found,    \* the identities it has resolved
    claimed,  \* the webhooks an earlier route has taken
    hop,      \* the pair being synced; 0 before the sync, Len(Hops) + 1 after
    half,     \* the PATCH of this pair is delivered and its hash not recorded
    renames, mishaps,
    (* observability *)
    torn,     \* webhooks whose last PATCH was not followed by its record
    patches,  \* PATCHes sent for each webhook
    before    \* mishaps up to the sync of this start

identityVars == <<channel, shown, hash, unasked, found, claimed, hop, half, renames, mishaps,
                  torn, patches, before>>

IdentityTypeOK ==
    /\ channel \in [Channels -> Identities]
    /\ shown \in [HookNames -> [title : Titles \cup {NoIdentity}, photo : Photos \cup {NoPhoto}]]
    /\ hash \in [HookNames -> Identities \cup {NoIdentity}]
    /\ unasked \subseteq Channels /\ found \in [Channels -> Identities \cup {NoIdentity}]
    /\ claimed \subseteq HookNames /\ torn \subseteq HookNames
    /\ hop \in 0..Len(Hops) + 1
    /\ half \in BOOLEAN /\ (half => hop \in DOMAIN Hops)
    /\ renames \in 0..MaxRenames /\ mishaps \in 0..MaxMishaps
    /\ patches \in [HookNames -> Nat] /\ before \in 0..mishaps

IdentityInit ==
    /\ channel \in [Channels -> [title : Titles, photo : {NoPhoto}]]
    /\ shown = [h \in HookNames |-> [title |-> NoIdentity, photo |-> NoPhoto]]
    /\ hash = [h \in HookNames |-> NoIdentity]
    /\ unasked = Channels /\ found = [c \in Channels |-> NoIdentity]
    /\ claimed = {} /\ hop = 0 /\ half = FALSE
    /\ renames = 0 /\ mishaps = 0 /\ torn = {}
    /\ patches = [h \in HookNames |-> 0] /\ before = 0

Mishaps(n) == mishaps + n <= MaxMishaps /\ mishaps' = mishaps + n

(* The owner renames a channel or changes or removes its photo. *)
Rename(c, i) ==
    /\ renames < MaxRenames /\ renames' = renames + 1
    /\ i # channel[c] /\ channel' = [channel EXCEPT ![c] = i]
    /\ UNCHANGED <<shown, hash, unasked, found, claimed, hop, half, mishaps, torn, patches, before>>

(* A start looks the channels up one after another, and any of them may    *)
(* change meanwhile, not resolve, or not give its photo.  (Routes of one   *)
(* channel share the outcome.)                                             *)
Lookup(c) ==
    /\ hop = 0 /\ c \in unasked
    /\ unasked' = unasked \ {c}
    /\ \/ found' = [found EXCEPT ![c] = channel[c]] /\ mishaps' = mishaps
       \/ found' = [found EXCEPT ![c] = NoIdentity] /\ Mishaps(1)
       \/ found' = [found EXCEPT ![c] = [channel[c] EXCEPT !.photo = NoPhoto]] /\ Mishaps(1)
    /\ UNCHANGED <<channel, shown, hash, claimed, hop, half, renames, torn, patches, before>>

(* sync_webhook_identities starts with what there is. *)
Begin ==
    /\ hop = 0 /\ unasked = {}
    /\ hop' = 1 /\ claimed' = {}
    /\ before' = mishaps
    /\ UNCHANGED <<channel, shown, hash, unasked, found, half, renames, mishaps, torn, patches>>

AtHop == hop \in DOMAIN Hops /\ ~half
Hook == Hops[hop].hook
Wanted == found[Hops[hop].chat]

(* The route has no identity, or the webhook is another route's. *)
PassBy ==
    /\ AtHop
    /\ Wanted = NoIdentity \/ Hook \in claimed
    /\ hop' = hop + 1
    /\ UNCHANGED <<channel, shown, hash, unasked, found, claimed, half, renames, mishaps, torn, patches, before>>

(* A faulty variant: every route has its turn. *)
MaySyncShared == AtHop /\ Wanted # NoIdentity

MaySync == AtHop /\ Wanted # NoIdentity /\ Hook \notin claimed

UpToDate ==
    /\ MaySync /\ hash[Hook] = Wanted
    /\ claimed' = claimed \cup {Hook} /\ hop' = hop + 1
    /\ UNCHANGED <<channel, shown, hash, unasked, found, half, renames, mishaps, torn, patches, before>>

(* The PATCH holds the name, and the photo if there is one. *)
Dressed(h) ==
    [shown EXCEPT ![h].title = Wanted.title,
                  ![h].photo = IF Wanted.photo = NoPhoto THEN @ ELSE Wanted.photo]

(* A PATCH is sent if the stored hash differs or is not there.  One that   *)
(* cannot be read is not there.                                            *)
Unread == IF hash[Hook] = Wanted THEN 1 ELSE 0

PatchWebhook ==
    /\ MaySync /\ Mishaps(Unread)
    /\ claimed' = claimed \cup {Hook}
    /\ shown' = Dressed(Hook) /\ half' = TRUE
    /\ torn' = torn \cup {Hook}
    /\ patches' = [patches EXCEPT ![Hook] = @ + 1]
    /\ UNCHANGED <<channel, hash, unasked, found, hop, renames, before>>

(* Not delivered, though it may have taken effect: the webhook stays       *)
(* claimed and is left to the next start.                                  *)
WebhookDropped(takesEffect) ==
    /\ MaySync /\ Mishaps(1 + Unread)
    /\ claimed' = claimed \cup {Hook} /\ hop' = hop + 1
    /\ shown' = IF takesEffect THEN Dressed(Hook) ELSE shown
    /\ torn' = IF takesEffect THEN torn \cup {Hook} ELSE torn
    /\ patches' = [patches EXCEPT ![Hook] = @ + 1]
    /\ UNCHANGED <<channel, hash, unasked, found, half, renames, before>>

(* A faulty variant: the hash is not replaced once there is one. *)
RecordHashOnce ==
    /\ half /\ half' = FALSE /\ hop' = hop + 1
    /\ hash' = IF hash[Hook] = NoIdentity THEN [hash EXCEPT ![Hook] = Wanted] ELSE hash
    /\ torn' = torn \ {Hook}
    /\ UNCHANGED <<channel, shown, unasked, found, claimed, renames, mishaps, patches, before>>

(* set_webhook_identity_hash *)
RecordHash ==
    /\ half /\ half' = FALSE /\ hop' = hop + 1
    /\ hash' = [hash EXCEPT ![Hook] = Wanted]
    /\ torn' = torn \ {Hook}
    /\ UNCHANGED <<channel, shown, unasked, found, claimed, renames, mishaps, patches, before>>

RecordHashFails ==
    /\ half /\ half' = FALSE /\ hop' = hop + 1 /\ Mishaps(1)
    /\ UNCHANGED <<channel, shown, hash, unasked, found, claimed, renames, torn, patches, before>>

(* The process ends, by a crash while it starts or later on in its life.   *)
Leave ==
    /\ hop > 0 \/ unasked # Channels
    /\ hop' = 0 /\ half' = FALSE /\ unasked' = Channels
    /\ IF hop \in 0..Len(Hops) THEN Mishaps(1) ELSE mishaps' = mishaps
    /\ UNCHANGED <<channel, shown, hash, found, claimed, renames, torn, patches, before>>

IdentityNext ==
    \/ \E c \in Channels, i \in Identities : Rename(c, i)
    \/ \E c \in Channels : Lookup(c)
    \/ Begin \/ PassBy \/ UpToDate \/ PatchWebhook
    \/ \E takesEffect \in BOOLEAN : WebhookDropped(takesEffect)
    \/ RecordHash \/ RecordHashFails \/ Leave

IdentitySpec == IdentityInit /\ [][IdentityNext]_identityVars
-----------------------------------------------------------------------------
(* A hash in the store tells what the webhook shows, so that a start that  *)
(* skips the PATCH is right to: its title, and its photo where the channel *)
(* had one.  Excused is a webhook whose last PATCH was not recorded.       *)
(* (sync_webhook_identities, the comparison of hashes.)                    *)
HashTellsShown ==
    \A h \in HookNames \ torn :
        hash[h] # NoIdentity =>
            /\ shown[h].title = hash[h].title
            /\ hash[h].photo # NoPhoto => shown[h].photo = hash[h].photo

IsFirst(i) ==
    /\ found[Hops[i].chat] # NoIdentity
    /\ \A j \in 1..i - 1 : Hops[j].hook = Hops[i].hook => found[Hops[j].chat] = NoIdentity

(* When a sync has met no mishap, every webhook bears the title of the     *)
(* first route that sends to it and resolved, whatever later routes share  *)
(* it and whatever earlier starts left behind.  Excused, again, is a       *)
(* webhook torn before.  (sync_webhook_identities, claimed.)               *)
FirstRouteNames ==
    hop = Len(Hops) + 1 /\ mishaps = before =>
        \A i \in DOMAIN Hops : IsFirst(i) =>
            /\ hash[Hops[i].hook] = found[Hops[i].chat]
            /\ Hops[i].hook \notin torn => shown[Hops[i].hook].title = found[Hops[i].chat].title

(* Restarts alone send nothing: the PATCHes of a webhook are paid for by   *)
(* changes of its channels and by mishaps, each of which can make one      *)
(* start go there and the next go back.                                    *)
RestartsAreQuiet ==
    \A h \in HookNames : patches[h] <= 1 + renames + 2 * mishaps
=============================================================================
